---- MODULE Spec2Model ----
(***************************************************************************)
(* The WebSocket relay of server.js: one session object per connection,    *)
(* the async 'message' handler with its suspension points (the text        *)
(* generation, transcription and synthesis backends), the interrupt flag,  *)
(* the bounded conversation context and the audio chunk buffer.            *)
(*                                                                         *)
(* A step of the model is what Node runs without yielding to the event     *)
(* loop: a handler from the arrival of its message to its first backend    *)
(* await, or from the return of a backend call to the next await (or to    *)
(* the end of the handler).  Handlers of one connection are async          *)
(* functions, so several of them can be suspended at the same time.        *)
(***************************************************************************)
EXTENDS Integers, Sequences, FiniteSets, TLC

\* ------------------------------------------------------------- constants
\* server.js:532-533  "if (length > 10) slice(-10)"
ContextCap == 10
\* server.js:458  "audioChunks.length >= 10"
ChunkThreshold == 10

\* ---------------------------------------------------------------- bounds
\* inbound messages of one behaviour of Spec
MaxMsgs == 3
\* content chunks of one streamed completion
MaxStreamChunks == 1
\* chat messages of one behaviour of SpecTurns (6 turns overflow the cap)
MaxTurnMsgs == 7
\* fragments of one behaviour of SpecChunks
MaxFragments == 12
\* inbound messages of one behaviour of SpecLife
MaxLifeMsgs == 4
\* inbound messages of one behaviour of SpecConfig
MaxConfigMsgs == 3
\* REST calls, and WebSocket messages, of one behaviour of SpecAuth
MaxAuthRequests == 2
\* messages of a client that does not wait for answers
MaxRaceMsgs == 3
\* WebSocket messages and REST calls of one behaviour of SpecRest
MaxRestEvents == 3
\* chat messages of one behaviour of SpecRaceTurns (7 overflow the context)
MaxRaceTurnMsgs == 7
\* inbound messages of one behaviour of SpecGone
MaxGoneMsgs == 3
\* fragments of one behaviour of SpecRaceChunks (11 overflow the threshold)
MaxRaceFragments == 11
\* inbound messages of one behaviour of SpecLive
MaxLiveMsgs == 2
\* messages, over both connections, of one behaviour of SpecPeers
MaxPeerMsgs == 3

ConnIds == {"c1"}
\* a second connection, opened in SpecPeers only
PeerIds == {"c2"}
\* session ids of the REST endpoint: what uuidv4() returns, or what a client
\* passes as sessionId
RestIds == {"r1", "r2"}
SessionIds == ConnIds \cup PeerIds \cup RestIds

\* server.js:595 and 654, the fixed apology
Apology == "I apologize, but I encountered an issue processing your request. Please try again."

\* JavaScript's null, where a string or a buffer is expected
Null == "<null>"

\* server.js:321-325
DefaultVoice == [languageCode |-> "en-IN", ssmlGender |-> "MALE", name |-> "en-IN-Chirp3-HD-Orus"]

VARIABLES
  sessions,           \* the connectionData objects, by connection id
  activeConnections,  \* the keys of the activeConnections Map
  handlers,           \* the suspended handler invocations, in arrival order
  outbox,             \* per connection, what sendToClient has sent
  appended,           \* per connection, every Turn ever pushed (history)
  turns,              \* per accepted input, what was done for it (history)
  inbox,              \* per connection, the kinds of the messages received
  utterance,          \* the client's current run of chunked fragments
  lastEvent,          \* the handler step that led to this state
  responses,          \* the HTTP responses of POST /api/chat, in the order sent
  apiSecretKey        \* process.env.API_SECRET_KEY, or Null when it is not set

vars == <<sessions, activeConnections, handlers, outbox, appended,
          turns, inbox, utterance, lastEvent, responses, apiSecretKey>>

\* ---------------------------------------------------------------- helpers
Has(data, f) == f \in DOMAIN data

\* JavaScript truthiness of an optional string field
TruthyStr(data, f) == Has(data, f) /\ data[f] # ""

\* JavaScript truthiness of the optional audio field (a base64 string, here
\* the sequence of its 4-character groups)
TruthyAudio(data) == Has(data, "audio") /\ data.audio # <<>>

Remove(s, i) == SubSeq(s, 1, i - 1) \o SubSeq(s, i + 1, Len(s))

RECURSIVE Join(_)
\* Array.prototype.join('') of a list of base64 strings
Join(chunks) == IF chunks = <<>> THEN <<>> ELSE Head(chunks) \o Join(Tail(chunks))

RECURSIVE B64Decode(_)
\* Buffer.from(s, 'base64'): the q-th 4-character group of the client's
\* base64 stream decodes to the bytes 3q-2, 3q-1, 3q of the client's audio
B64Decode(s) ==
  IF s = <<>> THEN <<>>
  ELSE <<3 * Head(s) - 2, 3 * Head(s) - 1, 3 * Head(s)>> \o B64Decode(Tail(s))

\* server.js:314-329; ws is the socket's readyState
NewConnectionData(id) ==
  [id |-> id,
   ws |-> "OPEN",
   conversationContext |-> <<>>,
   modelId |-> "gpt-4o-mini",
   modelType |-> "openai",
   audioSession |-> FALSE,
   voiceConfig |-> DefaultVoice,
   isResponseInterrupted |-> FALSE,
   audioChunks |-> <<>>]

NoEvent == [kind |-> "init"]

NoUtterance ==
  [start |-> -1, next |-> -1, frags |-> <<>>, flac |-> FALSE, lastZero |-> 0, dropped |-> 0,
   mime |-> Null]

\* the state of a process started with one of the given secrets
Boot(secrets) ==
  /\ sessions = [c \in {} |-> 0]
  /\ activeConnections = {}
  /\ handlers = <<>>
  /\ outbox = [c \in ConnIds \cup PeerIds |-> <<>>]
  /\ appended = [c \in SessionIds |-> <<>>]
  /\ turns = <<>>
  /\ inbox = [c \in ConnIds \cup PeerIds |-> <<>>]
  /\ utterance = NoUtterance
  /\ lastEvent = NoEvent
  /\ responses = <<>>
  /\ apiSecretKey \in secrets

\* a process whose clients hold its secret
Init == Boot({"k1"})

\* --------------------------------------------------------------- frames
\* A frame is the state a handler step works on: the session object, the
\* handler's own locals h, and what the step has sent (out), pushed (log)
\* and done for its turn (t) so far; res is what a REST handler has answered.
Frame(s, h, t) == [s |-> s, h |-> h, t |-> t, out |-> <<>>, log |-> <<>>, res |-> <<>>]

\* what was done for one accepted input: the Turns pushed (user, asst), the
\* messages sent (bot, audio, tr for transcript, err for error), whether an
\* interrupt came while it was generating (intr), and how the backend calls
\* made for it ended (gen, tts, stt: "", "ok" or "fail")
NewTurn(kind) ==
  [kind |-> kind, intr |-> FALSE, user |-> 0, asst |-> 0, bot |-> 0, audio |-> 0,
   tr |-> 0, err |-> 0, gen |-> "", tts |-> "", stt |-> ""]

NewHandler(c, kind, chunked, n) ==
  [c |-> c, kind |-> kind, chunked |-> chunked, n |-> n, pc |-> "start",
   assistantResponse |-> "", response |-> "", nchunks |-> 0, voiceUsed |-> "",
   audioBuffer |-> <<>>, mimeType |-> "", languageCode |-> "", includeAudio |-> FALSE,
   messages |-> <<>>]

\* a send that does not look at the socket's state
SendToClient_Always(F, msg) ==
  [F EXCEPT !.out = Append(@, msg),
            !.t.bot = IF msg.type = "bot_message" THEN @ + 1 ELSE @,
            !.t.audio = IF msg.type = "audio_message" THEN @ + 1 ELSE @,
            !.t.tr = IF msg.type = "transcript" THEN @ + 1 ELSE @,
            !.t.err = IF msg.type = "error" THEN @ + 1 ELSE @]

\* server.js:807-811
SendToClient(F, msg) ==
  IF F.s.ws = "OPEN"
  THEN [F EXCEPT !.out = Append(@, msg),
                 !.t.bot = IF msg.type = "bot_message" THEN @ + 1 ELSE @,
                 !.t.audio = IF msg.type = "audio_message" THEN @ + 1 ELSE @,
                 !.t.tr = IF msg.type = "transcript" THEN @ + 1 ELSE @,
                 !.t.err = IF msg.type = "error" THEN @ + 1 ELSE @]
  ELSE F

\* server.js:816-821
SendError(F, errorMessage) == SendToClient(F, [type |-> "error", error |-> errorMessage])

\* conversationContext.push({role, content})
PushTurn(F, role, content) ==
  LET turn == [role |-> role, content |-> content] IN
  [F EXCEPT !.s.conversationContext = Append(@, turn),
            !.log = Append(@, turn),
            !.t.user = IF role = "user" THEN @ + 1 ELSE @,
            !.t.asst = IF role = "assistant" THEN @ + 1 ELSE @]

\* the oldest Turns kept
TrimContext_KeepsOldest(ctx) ==
  IF Len(ctx) > ContextCap THEN SubSeq(ctx, 1, ContextCap) ELSE ctx

\* server.js:531-534
TrimContext(ctx) ==
  IF Len(ctx) > ContextCap THEN SubSeq(ctx, Len(ctx) - ContextCap + 1, Len(ctx)) ELSE ctx

\* the flag cleared at the end of every turn
Done_ClearsFlag(F) ==
  [F EXCEPT !.h.pc = "done",
            !.s.isResponseInterrupted = FALSE,
            !.s.audioChunks = IF F.h.chunked THEN <<>> ELSE @]

\* the end of a handler; server.js:469 for a chunked unit
Done(F) ==
  [F EXCEPT !.h.pc = "done",
            !.s.audioChunks = IF F.h.chunked THEN <<>> ELSE @]

\* server.js:405-427 and 924-946, up to the synthesis call
SendResponse(F, response) ==
  IF ~F.s.isResponseInterrupted
  THEN LET F1 == SendToClient(F, [type |-> "bot_message", text |-> response]) IN
       IF F1.s.audioSession
       THEN [F1 EXCEPT !.h.pc = "tts", !.h.response = response,
                       !.h.voiceUsed = F1.s.voiceConfig.name]
       ELSE Done(F1)
  ELSE Done(F)

\* the audio_message labelled with the default voice
SendAudio_DefaultVoice(F, audioBuffer) ==
  IF audioBuffer # Null /\ ~F.s.isResponseInterrupted
  THEN Done(SendToClient(F, [type |-> "audio_message", audio |-> audioBuffer,
                             format |-> "mp3", voice |-> DefaultVoice.name]))
  ELSE Done(F)

\* server.js:417-425 and 936-944, after the synthesis call returned
SendAudio(F, audioBuffer) ==
  IF audioBuffer # Null /\ ~F.s.isResponseInterrupted
  THEN Done(SendToClient(F, [type |-> "audio_message", audio |-> audioBuffer,
                             format |-> "mp3", voice |-> F.s.voiceConfig.name]))
  ELSE Done(F)

\* server.js:254-272, the answer of POST /api/chat
RestRespond(F, response, audioResponse) ==
  LET responseData == [status |-> 200,
                       sessionId |-> F.s.id,
                       message |-> response,
                       model |-> [id |-> F.s.modelId, type |-> F.s.modelType]]
      withAudio == [audio |-> audioResponse, audioFormat |-> "mp3",
                    voice |-> F.s.voiceConfig.name]
  IN [F EXCEPT !.res = Append(@, IF audioResponse # Null
                                 THEN responseData @@ withAudio ELSE responseData),
               !.h.pc = "done"]

\* server.js:246-252, after processUserMessage returned
RestAfterGeneration(F, response) ==
  IF F.h.includeAudio
  THEN [F EXCEPT !.h.pc = "tts", !.h.response = response]
  ELSE RestRespond(F, response, Null)

\* processUserMessage returns to its caller: the WebSocket handler
\* (server.js:403, 922) or the REST handler (246)
Respond(F, response) ==
  IF F.h.kind = "rest" THEN RestAfterGeneration(F, response) ELSE SendResponse(F, response)

\* the assistant Turn pushed without looking at the flag
ConcludeGeneration_NoCheck(F, assistantResponse) ==
  Respond(PushTurn(F, "assistant", assistantResponse), assistantResponse)

\* server.js:581-592
ConcludeGeneration(F, assistantResponse) ==
  LET F1 == IF ~F.s.isResponseInterrupted
            THEN PushTurn(F, "assistant", assistantResponse)
            ELSE F
  IN Respond(F1, assistantResponse)

\* a failed generation that never returns to its caller
CatchGeneration_Stuck(F) == [F EXCEPT !.h.pc = "failed"]

\* server.js:593-596
CatchGeneration(F) == Respond(F, Apology)

\* the generation started without the user Turn
ProcessUserMessage_NoUserTurn(F, userMessage) ==
  IF F.s.isResponseInterrupted
  THEN Respond(F, "")
  ELSE [F EXCEPT !.h.pc = IF F.s.modelType = "gemini" THEN "gemini" ELSE "create"]

\* the history sent after one more trim, to ContextCap - 1 Turns
Prompt_Shortened(conversationContext) ==
  IF Len(conversationContext) >= ContextCap
  THEN SubSeq(conversationContext, 1, ContextCap - 1)
  ELSE conversationContext

\* server.js:545 and 548-551, 608-610: the Turns of the request, after the
\* system prompt
Prompt(conversationContext) == conversationContext

\* server.js:523-564, up to the backend call; messages is the history the
\* backend is called with
ProcessUserMessage(F, userMessage) ==
  LET F1 == PushTurn(F, "user", userMessage)
      F2 == [F1 EXCEPT !.s.conversationContext = TrimContext(@)]
  IN IF F2.s.isResponseInterrupted
     THEN Respond(F2, "")
     ELSE [F2 EXCEPT !.h.pc = IF F2.s.modelType = "gemini" THEN "gemini" ELSE "create",
                     !.h.messages = Prompt(F2.s.conversationContext)]

\* the step's effect on the variables; i is the handler's index in handlers
\* (Len(handlers) + 1 for a handler that starts in this step)
Commit(c, i, F, ev) ==
  /\ sessions' = (c :> F.s) @@ sessions
  /\ outbox' = IF F.out = <<>> THEN outbox ELSE [outbox EXCEPT ![c] = @ \o F.out]
  /\ responses' = responses \o F.res
  /\ UNCHANGED apiSecretKey
  /\ appended' = [appended EXCEPT ![c] = @ \o F.log]
  /\ handlers' = IF i > Len(handlers)
                 THEN IF F.h.pc = "done" THEN handlers ELSE Append(handlers, F.h)
                 ELSE IF F.h.pc = "done" THEN Remove(handlers, i)
                      ELSE [handlers EXCEPT ![i] = F.h]
  /\ turns' = IF F.h.n > Len(turns) THEN Append(turns, F.t)
              ELSE [turns EXCEPT ![F.h.n] = F.t]
  /\ lastEvent' = ev

\* a step of the 'message' handler that starts no turn
Handled(c, s, out, ev) ==
  /\ sessions' = [sessions EXCEPT ![c] = s]
  /\ outbox' = [outbox EXCEPT ![c] = @ \o out]
  /\ lastEvent' = ev
  /\ UNCHANGED <<appended, handlers, turns, responses, apiSecretKey>>

Received(c, kind) == inbox' = [inbox EXCEPT ![c] = Append(@, kind)]

InFlight(c) == {i \in DOMAIN handlers : handlers[i].c = c}

\* a message that is no chunked fragment ends the client's run of fragments
OtherMessage == utterance' = [utterance EXCEPT !.next = -1]

\* ------------------------------------------------------------ connection
\* what is known of a request that passed the authentication when the
\* model does not say which key it presented
Authenticated == [c \in {} |-> 0]

\* server.js:309-337; req is what the upgrade request presented
Connection(c, req) ==
  /\ c \notin DOMAIN sessions
  /\ sessions' = sessions @@ (c :> NewConnectionData(c))
  /\ activeConnections' = activeConnections \cup {c}
  /\ outbox' = [outbox EXCEPT ![c] = Append(@, [type |-> "connected", connectionId |-> c])]
  /\ lastEvent' = [kind |-> "connection", c |-> c] @@ req
  /\ UNCHANGED <<handlers, appended, turns, inbox, utterance, responses, apiSecretKey>>

\* a connection of a client that holds the secret
Connect(c) == Connection(c, Authenticated)

\* JavaScript truthiness of a key that may be missing (Null) or empty
TruthyKey(apiKey) == apiKey # Null /\ apiKey # ""

\* an unset secret lets every key in
AuthenticateWebSocket_OpenWithoutSecret(apiKey) ==
  apiSecretKey = Null \/ (TruthyKey(apiKey) /\ apiKey = apiSecretKey)

\* server.js:280-291; apiKey is url.searchParams.get('api_key')
AuthenticateWebSocket(apiKey) ==
  ~(~TruthyKey(apiKey) \/ apiKey # apiSecretKey)

\* server.js:294-306
Upgrade(c, apiKey) ==
  IF AuthenticateWebSocket(apiKey)
  THEN Connection(c, [apiKey |-> apiKey])
  ELSE /\ lastEvent' = [kind |-> "upgrade_rejected", c |-> c, apiKey |-> apiKey]
       /\ UNCHANGED <<sessions, activeConnections, handlers, outbox, appended, turns,
                      inbox, utterance, responses, apiSecretKey>>

\* --------------------------------------------------------------- config
\* the spelling of the voice names the model's clients use
VoiceChars ==
  [v \in {"en-IN-Chirp3-HD-Orus", "en-IN-Chirp3-HD-Zephyr", "hi-IN-Chirp3-HD-Orus",
          "hi-IN-Chirp3-HD-Zephyr", "Puck"} |->
     CASE v = "en-IN-Chirp3-HD-Orus" ->
            <<"e","n","-","I","N","-","C","h","i","r","p","3","-","H","D","-","O","r","u","s">>
       [] v = "en-IN-Chirp3-HD-Zephyr" ->
            <<"e","n","-","I","N","-","C","h","i","r","p","3","-","H","D","-","Z","e","p","h","y","r">>
       [] v = "hi-IN-Chirp3-HD-Orus" ->
            <<"h","i","-","I","N","-","C","h","i","r","p","3","-","H","D","-","O","r","u","s">>
       [] v = "hi-IN-Chirp3-HD-Zephyr" ->
            <<"h","i","-","I","N","-","C","h","i","r","p","3","-","H","D","-","Z","e","p","h","y","r">>
       [] v = "Puck" -> <<"P","u","c","k">>]

LowerCase == {"a","b","c","d","e","f","g","h","i","j","k","l","m",
              "n","o","p","q","r","s","t","u","v","w","x","y","z"}
UpperCase == {"A","B","C","D","E","F","G","H","I","J","K","L","M",
              "N","O","P","Q","R","S","T","U","V","W","X","Y","Z"}

NoMatch == "<no match>"

\* server.js:372  voice.match(/^([a-z]{2}-[A-Z]{2})/), its group 1
LangCodeMatch(voice) ==
  LET cs == VoiceChars[voice] IN
  IF /\ Len(cs) >= 5
     /\ cs[1] \in LowerCase /\ cs[2] \in LowerCase
     /\ cs[3] = "-"
     /\ cs[4] \in UpperCase /\ cs[5] \in UpperCase
  THEN cs[1] \o cs[2] \o cs[3] \o cs[4] \o cs[5]
  ELSE NoMatch

\* x || dflt for an optional string field
OrDefault(data, f, dflt) == IF TruthyStr(data, f) THEN data[f] ELSE dflt

\* server.js:357-377; data.voice is [tag |-> "string", value |-> name] or
\* [tag |-> "object", value |-> a record of optional fields]
ConfigVoice(voiceConfig, data) ==
  IF ~Has(data, "voice") \/ (data.voice.tag = "string" /\ data.voice.value = "")
  THEN voiceConfig
  ELSE IF data.voice.tag = "object"
  THEN [languageCode |-> OrDefault(data.voice.value, "languageCode", "en-IN"),
        ssmlGender |-> OrDefault(data.voice.value, "ssmlGender", "MALE"),
        name |-> OrDefault(data.voice.value, "name", "en-IN-Chirp3-HD-Orus")]
  ELSE [voiceConfig EXCEPT
          !.name = data.voice.value,
          !.languageCode = IF LangCodeMatch(data.voice.value) # NoMatch
                           THEN LangCodeMatch(data.voice.value) ELSE @]

\* server.js:379-380
ConfigInterruptFlag(flag) == FALSE

\* server.js:346-390
Config(c, data) ==
  /\ c \in DOMAIN sessions
  /\ LET s == sessions[c]
         s1 == [s EXCEPT
                  !.modelId = IF TruthyStr(data, "modelId") THEN data.modelId ELSE @,
                  !.modelType = IF TruthyStr(data, "modelType") THEN data.modelType ELSE @,
                  !.audioSession = IF Has(data, "audioSession") THEN data.audioSession ELSE @,
                  !.voiceConfig = ConfigVoice(@, data),
                  !.isResponseInterrupted = ConfigInterruptFlag(@)]
         ack == [type |-> "config_acknowledged",
                 voice |-> s1.voiceConfig,
                 model |-> [id |-> s1.modelId, type |-> s1.modelType]]
     IN Handled(c, s1, <<ack>>, [kind |-> "config", c |-> c, data |-> data])
  /\ Received(c, "config")
  /\ OtherMessage
  /\ UNCHANGED activeConnections

\* ------------------------------------------------------------- interrupt
GeneratingPcs == {"create", "stream", "gemini"}

\* an interrupt that stops every session of the registry
Interrupt_Broadcast(c) ==
  /\ c \in DOMAIN sessions
  /\ sessions' = [d \in DOMAIN sessions |->
                    IF d \in activeConnections \/ d = c
                    THEN [sessions[d] EXCEPT !.isResponseInterrupted = TRUE]
                    ELSE sessions[d]]
  /\ outbox' = [outbox EXCEPT ![c] = Append(@, [type |-> "interrupt_acknowledged"])]
  /\ turns' = [n \in DOMAIN turns |->
                 IF \E i \in InFlight(c) : handlers[i].n = n /\ handlers[i].pc \in GeneratingPcs
                 THEN [turns[n] EXCEPT !.intr = TRUE] ELSE turns[n]]
  /\ lastEvent' = [kind |-> "interrupt", c |-> c]
  /\ Received(c, "interrupt")
  /\ OtherMessage
  /\ UNCHANGED <<activeConnections, handlers, appended, responses, apiSecretKey>>

\* an interrupt that also drops the buffered fragments
Interrupt_DropsBuffer(c) ==
  /\ c \in DOMAIN sessions
  /\ sessions' = [sessions EXCEPT ![c].isResponseInterrupted = TRUE,
                                  ![c].audioChunks = <<>>]
  /\ outbox' = [outbox EXCEPT ![c] = Append(@, [type |-> "interrupt_acknowledged"])]
  /\ turns' = [n \in DOMAIN turns |->
                 IF \E i \in InFlight(c) : handlers[i].n = n /\ handlers[i].pc \in GeneratingPcs
                 THEN [turns[n] EXCEPT !.intr = TRUE] ELSE turns[n]]
  /\ lastEvent' = [kind |-> "interrupt", c |-> c]
  /\ Received(c, "interrupt")
  /\ OtherMessage
  /\ UNCHANGED <<activeConnections, handlers, appended, responses, apiSecretKey>>

\* server.js:484-495
Interrupt(c) ==
  /\ c \in DOMAIN sessions
  /\ sessions' = [sessions EXCEPT ![c].isResponseInterrupted = TRUE]
  /\ outbox' = [outbox EXCEPT ![c] = Append(@, [type |-> "interrupt_acknowledged"])]
  /\ turns' = [n \in DOMAIN turns |->
                 IF \E i \in InFlight(c) : handlers[i].n = n /\ handlers[i].pc \in GeneratingPcs
                 THEN [turns[n] EXCEPT !.intr = TRUE] ELSE turns[n]]
  /\ lastEvent' = [kind |-> "interrupt", c |-> c]
  /\ Received(c, "interrupt")
  /\ OtherMessage
  /\ UNCHANGED <<activeConnections, handlers, appended, responses, apiSecretKey>>

\* ------------------------------------------- other and malformed messages
\* a message of no known type that clears the flag, as new input does
UnknownMessage_ClearsFlag(c) ==
  /\ c \in DOMAIN sessions
  /\ Handled(c, [sessions[c] EXCEPT !.isResponseInterrupted = FALSE],
             <<[type |-> "error", error |-> "Unknown message type"]>>,
             [kind |-> "unknown", c |-> c])
  /\ Received(c, "unknown")
  /\ OtherMessage
  /\ UNCHANGED activeConnections

\* a message that does not parse ends the session
MalformedMessage_TearsDown(c) ==
  /\ c \in DOMAIN sessions
  /\ Handled(c, [sessions[c] EXCEPT !.ws = "CLOSED"],
             <<[type |-> "error", error |-> "Failed to process message"]>>,
             [kind |-> "malformed", c |-> c])
  /\ Received(c, "malformed")
  /\ OtherMessage
  /\ activeConnections' = activeConnections \ {c}

\* server.js:497-500, a message whose type is none of the four kinds
UnknownMessage(c) ==
  /\ c \in DOMAIN sessions
  /\ Handled(c, sessions[c], <<[type |-> "error", error |-> "Unknown message type"]>>,
             [kind |-> "unknown", c |-> c])
  /\ Received(c, "unknown")
  /\ OtherMessage
  /\ UNCHANGED activeConnections

\* server.js:342 and 501-504, a message that JSON.parse rejects
MalformedMessage(c) ==
  /\ c \in DOMAIN sessions
  /\ Handled(c, sessions[c], <<[type |-> "error", error |-> "Failed to process message"]>>,
             [kind |-> "malformed", c |-> c])
  /\ Received(c, "malformed")
  /\ OtherMessage
  /\ UNCHANGED activeConnections

\* ------------------------------------------------------- close and error
\* a close that leaves the registry entry in place
Close_KeepsEntry(c) ==
  /\ c \in DOMAIN sessions
  /\ sessions[c].ws \in {"OPEN", "CLOSING"}
  /\ sessions' = [sessions EXCEPT ![c].ws = "CLOSED"]
  /\ lastEvent' = [kind |-> "close", c |-> c]
  /\ UNCHANGED <<activeConnections, handlers, outbox, appended, turns, inbox, utterance,
                 responses, apiSecretKey>>

\* server.js:507-511; the socket is CLOSED when 'close' is emitted
Close(c) ==
  /\ c \in DOMAIN sessions
  /\ sessions[c].ws \in {"OPEN", "CLOSING"}
  /\ sessions' = [sessions EXCEPT ![c].ws = "CLOSED"]
  /\ activeConnections' = activeConnections \ {c}
  /\ lastEvent' = [kind |-> "close", c |-> c]
  /\ UNCHANGED <<handlers, outbox, appended, turns, inbox, utterance, responses,
                 apiSecretKey>>

\* server.js:513-517; the socket that emits 'error' is CLOSING, its 'close'
\* follows
ConnError(c) ==
  /\ c \in DOMAIN sessions
  /\ sessions[c].ws = "OPEN"
  /\ sessions' = [sessions EXCEPT ![c].ws = "CLOSING"]
  /\ activeConnections' = activeConnections \ {c}
  /\ lastEvent' = [kind |-> "error", c |-> c]
  /\ UNCHANGED <<handlers, outbox, appended, turns, inbox, utterance, responses,
                 apiSecretKey>>

\* ---------------------------------------------------------- chat_message
\* server.js:399-400
ResetOnInput(flag) == FALSE

\* only a missing message refused, an empty one accepted
MessageRequired_MissingOnly(data) == ~Has(data, "message")

\* server.js:394  "if (!data.message)"
MessageRequired(data) == ~TruthyStr(data, "message")

\* server.js:392-428, up to the first backend await
ChatMessage(c, data) ==
  /\ c \in DOMAIN sessions
  /\ LET ev == [kind |-> "chat_message", c |-> c, data |-> data] IN
     IF MessageRequired(data)
     THEN Handled(c, sessions[c], <<[type |-> "error", error |-> "Message is required"]>>, ev)
     ELSE LET s1 == [sessions[c] EXCEPT !.isResponseInterrupted = ResetOnInput(@)]
              h == NewHandler(c, "chat", FALSE, Len(turns) + 1)
          IN Commit(c, Len(handlers) + 1,
                    ProcessUserMessage(Frame(s1, h, NewTurn("chat")), data.message), ev)
  /\ Received(c, "chat_message")
  /\ OtherMessage
  /\ UNCHANGED activeConnections

\* ------------------------------------------------------------ audio_data

\* only chunk number 1 taken as the start of an utterance
StartOfUtterance_OneOnly(data) == Has(data, "chunkNumber") /\ data.chunkNumber = 1

\* server.js:446-447
StartOfUtterance(data) ==
  Has(data, "chunkNumber") /\ (data.chunkNumber = 0 \/ data.chunkNumber = 1)

\* the last-chunk marker ignored
ShouldProcess_CountOnly(data, audioChunks) == Len(audioChunks) >= ChunkThreshold

\* server.js:457-460
ShouldProcess(data, audioChunks) ==
  LET isLastChunk == Has(data, "isLastChunk") /\ data.isLastChunk = TRUE
      haveEnoughData == Len(audioChunks) >= ChunkThreshold
  IN isLastChunk \/ haveEnoughData

\* server.js:446-454
StoreChunk(audioChunks, data) ==
  Append(IF StartOfUtterance(data) THEN <<>> ELSE audioChunks, data.audio)

\* the client's run of consecutively numbered fragments, after this one; mime
\* is the mimeType of the fragment numbered 0 or 1 that the buffer begins
\* with, Null if it has none
NextUtterance(data, at, buffered) ==
  LET cn == IF Has(data, "chunkNumber") THEN data.chunkNumber ELSE -1
      last == Has(data, "isLastChunk") /\ data.isLastChunk = TRUE
      cont == cn >= 1 /\ utterance.next = cn
  IN [start |-> IF cont THEN utterance.start ELSE cn,
      next |-> IF last \/ cn < 0 THEN -1 ELSE cn + 1,
      frags |-> IF cont THEN Append(utterance.frags, data.audio) ELSE <<data.audio>>,
      flac |-> (cont /\ utterance.flac) \/ (Has(data, "mimeType") /\ data.mimeType = "audio/flac"),
      lastZero |-> IF cn = 0 THEN at ELSE utterance.lastZero,
      dropped |-> IF cn = 0 THEN buffered ELSE utterance.dropped,
      mime |-> IF StartOfUtterance(data) THEN OrDefault(data, "mimeType", Null)
               ELSE IF buffered = 0 THEN Null ELSE utterance.mime]

\* server.js:899-908: processAudioData up to the await in speechToText
\* (694-773); audioBuffer, mimeType and languageCode are what speechToText
\* is called with
ProcessAudioData(c, s, audioBuffer, chunked, mimeType, ev) ==
  LET h == [NewHandler(c, "audio", chunked, Len(turns) + 1) EXCEPT
              !.pc = "stt",
              !.audioBuffer = audioBuffer,
              !.mimeType = mimeType,
              !.languageCode = s.voiceConfig.languageCode]
  IN Commit(c, Len(handlers) + 1, Frame(s, h, NewTurn("audio")), ev)

\* server.js:432  "if (!data.audio)"
AudioRequired(data) == ~TruthyAudio(data)

\* server.js:430-482, up to the first backend await
AudioData(c, data) ==
  /\ c \in DOMAIN sessions
  /\ Received(c, "audio_data")
  /\ UNCHANGED activeConnections
  /\ LET at == Len(inbox[c]) + 1
         ev == [kind |-> "audio_data", c |-> c, data |-> data, at |-> at, completed |-> FALSE]
         s1 == [sessions[c] EXCEPT !.isResponseInterrupted = ResetOnInput(@)]
     IN IF AudioRequired(data)
        THEN /\ Handled(c, sessions[c], <<[type |-> "error", error |-> "Audio data is required"]>>, ev)
             /\ OtherMessage
        ELSE IF ~(Has(data, "format") /\ data.format = "base64")
        THEN /\ Handled(c, s1, <<[type |-> "error", error |-> "Unsupported audio format"]>>, ev)
             /\ OtherMessage
        ELSE IF Has(data, "isChunk") /\ data.isChunk = TRUE
        THEN LET s2 == [s1 EXCEPT !.audioChunks = StoreChunk(@, data)] IN
             /\ utterance' = NextUtterance(data, at, Len(s1.audioChunks))
             /\ IF ShouldProcess(data, s2.audioChunks)
                THEN ProcessAudioData(c, s2, B64Decode(Join(s2.audioChunks)), TRUE,
                                      OrDefault(data, "mimeType", "audio/webm;codecs=opus"),
                                      [ev EXCEPT !.completed = TRUE])
                ELSE Handled(c, s2, <<>>, ev)
        ELSE /\ OtherMessage
             /\ ProcessAudioData(c, s1, B64Decode(data.audio), FALSE,
                                 OrDefault(data, "mimeType", "audio/mp3"),
                                 [ev EXCEPT !.completed = TRUE])

\* --------------------------------------------------------- POST /api/chat
\* String.prototype.includes, on the spelling of a voice name
Includes(cs, sub) ==
  \E k \in 0 .. Len(cs) - Len(sub) : SubSeq(cs, k + 1, k + Len(sub)) = sub

\* server.js:225-243; body.voice is tagged as data.voice of a config message
RestVoice(voiceConfig, body) ==
  IF ~Has(body, "voice") \/ (body.voice.tag = "string" /\ body.voice.value = "")
  THEN voiceConfig
  ELSE IF body.voice.tag = "object"
  THEN [languageCode |-> OrDefault(body.voice.value, "languageCode", "en-IN"),
        ssmlGender |-> OrDefault(body.voice.value, "ssmlGender", "MALE"),
        name |-> OrDefault(body.voice.value, "name", "en-IN-Chirp3-HD-Orus")]
  ELSE [languageCode |-> IF LangCodeMatch(body.voice.value) # NoMatch
                         THEN LangCodeMatch(body.voice.value) ELSE "en-IN",
        ssmlGender |-> IF Includes(VoiceChars[body.voice.value], <<"O","r","u","s">>)
                       THEN "MALE" ELSE "FEMALE",
        name |-> body.voice.value]

\* every call takes a new session
RestLookup_Miss(body) == FALSE

\* server.js:200-201  activeConnections.get(sessionId), and what it found
RestLookup(body) == Has(body, "sessionId") /\ body.sessionId \in activeConnections

\* server.js:202  sessionId || uuidv4()
NewSessionId(body, uuid) == OrDefault(body, "sessionId", uuid)

\* server.js:203-214
NewRestSession(id, body) ==
  [id |-> id,
   conversationContext |-> <<>>,
   modelId |-> OrDefault(body, "modelId", "gpt-4o-mini"),
   modelType |-> OrDefault(body, "modelType", "openai"),
   voiceConfig |-> DefaultVoice,
   isResponseInterrupted |-> FALSE]

\* server.js:216-223
UpdateRestSession(session, body) ==
  [session EXCEPT
     !.modelId = IF TruthyStr(body, "modelId") THEN body.modelId ELSE @,
     !.modelType = IF TruthyStr(body, "modelType") THEN body.modelType ELSE @]

\* server.js:191-246, up to the first backend await; includeAudio is
\* req.query.include_audio === 'true', uuid what uuidv4() would return, req
\* what the request presented to authenticateRequest
ChatEndpoint(body, includeAudio, uuid, req) ==
  LET ev == [kind |-> "rest_chat", body |-> body] @@ req IN
  /\ UNCHANGED <<outbox, inbox, utterance>>
  /\ IF MessageRequired(body)
     THEN /\ responses' = Append(responses, [status |-> 400, error |-> "Message is required"])
          /\ lastEvent' = ev @@ [c |-> ""]
          /\ UNCHANGED <<sessions, activeConnections, handlers, appended, turns, apiSecretKey>>
     ELSE LET found == RestLookup(body)
              id == IF found THEN body.sessionId ELSE NewSessionId(body, uuid)
              session == IF found THEN UpdateRestSession(sessions[id], body)
                         ELSE NewRestSession(id, body)
              s1 == [session EXCEPT !.voiceConfig = RestVoice(@, body)]
              h == [NewHandler(id, "rest", FALSE, Len(turns) + 1) EXCEPT
                      !.includeAudio = includeAudio]
          IN /\ activeConnections' = activeConnections \cup {id}
             /\ Commit(id, Len(handlers) + 1,
                       ProcessUserMessage(Frame(s1, h, NewTurn("rest")), body.message),
                       ev @@ [c |-> id])

\* a call of a client that holds the secret
RestChat(body, includeAudio, uuid) == ChatEndpoint(body, includeAudio, uuid, Authenticated)

\* server.js:162-178; headerKey is req.headers['x-api-key'], queryKey is
\* req.query.api_key
AuthenticateRequest(headerKey, queryKey) ==
  LET apiKey == IF TruthyKey(headerKey) THEN headerKey ELSE queryKey IN
  ~(~TruthyKey(apiKey) \/ apiKey # apiSecretKey)

\* server.js:191, POST /api/chat behind its authentication middleware
RestRequest(headerKey, queryKey, body, includeAudio, uuid) ==
  LET req == [headerKey |-> headerKey, queryKey |-> queryKey] IN
  IF AuthenticateRequest(headerKey, queryKey)
  THEN ChatEndpoint(body, includeAudio, uuid, req)
  ELSE /\ responses' = Append(responses, [status |-> 401,
                                          error |-> "Unauthorized: Invalid or missing API key"])
       /\ lastEvent' = [kind |-> "rest_rejected", body |-> body] @@ req
       /\ UNCHANGED <<sessions, activeConnections, handlers, outbox, appended, turns,
                      inbox, utterance, apiSecretKey>>

\* ------------------------------------------------------- backend returns
Resume(i) == Frame(sessions[handlers[i].c], handlers[i], turns[handlers[i].n])

\* the frame of handler i resumed by a backend call that ended as outcome
Settled(i, call, outcome) == [Resume(i) EXCEPT !.t[call] = outcome]

Outcome(value) == IF value = Null THEN "fail" ELSE "ok"

Returned(i, F, kind) ==
  /\ Commit(handlers[i].c, i, F, [kind |-> kind, c |-> handlers[i].c, n |-> handlers[i].n])
  /\ UNCHANGED <<activeConnections, inbox, utterance>>

\* a failed transcription taken for an empty transcript
TranscriptReturned_EmptyOnFailure(F, transcript) ==
  LET text == IF transcript = Null THEN "" ELSE transcript
      F1 == SendToClient(F, [type |-> "transcript", text |-> text])
  IN IF ~F1.s.isResponseInterrupted
     THEN ProcessUserMessage(F1, text)
     ELSE Done(F1)

\* the transcript processed whatever the flag says
TranscriptReturned_IgnoresFlag(F, transcript) ==
  IF transcript # Null /\ transcript # ""
  THEN ProcessUserMessage(SendToClient(F, [type |-> "transcript", text |-> transcript]),
                          transcript)
  ELSE Done(SendError(F, "Could not transcribe audio"))

\* server.js:910-951, after speechToText returned (a string, or null)
TranscriptReturned(F, transcript) ==
  IF transcript # Null /\ transcript # ""
  THEN LET F1 == SendToClient(F, [type |-> "transcript", text |-> transcript]) IN
       IF ~F1.s.isResponseInterrupted
       THEN ProcessUserMessage(F1, transcript)
       ELSE Done(F1)
  ELSE Done(SendError(F, "Could not transcribe audio"))

\* speechClient.recognize settles, server.js:773-801
STTReturn(i, transcript) ==
  /\ handlers[i].pc = "stt"
  /\ Commit(handlers[i].c, i,
            TranscriptReturned(Settled(i, "stt", Outcome(transcript)), transcript),
            [kind |-> "stt_return", c |-> handlers[i].c, n |-> handlers[i].n,
             transcript |-> transcript])
  /\ UNCHANGED <<activeConnections, inbox, utterance>>

\* openai.chat.completions.create settles, server.js:558-564
CreateReturn(i, ok) ==
  /\ handlers[i].pc = "create"
  /\ Returned(i, IF ok THEN [Resume(i) EXCEPT !.h.pc = "stream"]
                 ELSE CatchGeneration(Settled(i, "gen", "fail")), "create_return")

\* server.js:567-578, one iteration of the for await loop
StreamIteration(F, content) ==
  IF F.s.isResponseInterrupted
  THEN ConcludeGeneration(F, F.h.assistantResponse)
  ELSE [F EXCEPT !.h.assistantResponse = @ \o content, !.h.nchunks = @ + 1]

\* the stream yields a chunk
StreamChunk(i, content) ==
  /\ handlers[i].pc = "stream"
  /\ handlers[i].nchunks < MaxStreamChunks
  /\ Returned(i, StreamIteration(Resume(i), content), "stream_chunk")

\* the stream ends: the loop exits, server.js:579-592
StreamEnd(i) ==
  /\ handlers[i].pc = "stream"
  /\ Returned(i, ConcludeGeneration(Settled(i, "gen", "ok"), handlers[i].assistantResponse),
              "stream_end")

\* the stream throws, server.js:593-596
StreamError(i) ==
  /\ handlers[i].pc = "stream"
  /\ Returned(i, CatchGeneration(Settled(i, "gen", "fail")), "stream_error")

\* server.js:640-655: the text of the reply, or the apology on any failure
GetGeminiResponse(reply) == IF reply = Null THEN Apology ELSE reply

\* getGeminiResponse settles, server.js:546
GeminiReturn(i, reply) ==
  /\ handlers[i].pc = "gemini"
  /\ Returned(i, ConcludeGeneration(Settled(i, "gen", Outcome(reply)), GetGeminiResponse(reply)),
              "gemini_return")

\* textToSpeech settles (a buffer, or null on failure), server.js:681-688
TTSReturn(i, audioBuffer) ==
  /\ handlers[i].pc = "tts"
  /\ LET F == Settled(i, "tts", Outcome(audioBuffer)) IN
     Returned(i, IF handlers[i].kind = "rest"
                 THEN RestRespond(F, handlers[i].response, audioBuffer)
                 ELSE SendAudio(F, audioBuffer), "tts_return")

\* ------------------------------------------------------ the environment
ConfigInputs ==
  {[type |-> "config", audioSession |-> FALSE],
   [type |-> "config", modelType |-> "gemini", modelId |-> "gemini-2.0-flash",
    audioSession |-> TRUE, voice |-> [tag |-> "string", value |-> "hi-IN-Chirp3-HD-Zephyr"]],
   [type |-> "config", audioSession |-> TRUE,
    voice |-> [tag |-> "object", value |-> [name |-> "en-IN-Chirp3-HD-Zephyr"]]]}

ChatInputs ==
  {[type |-> "chat_message", message |-> "hi"],
   [type |-> "chat_message", message |-> ""],
   [type |-> "chat_message"]}

AudioInputs ==
  {[type |-> "audio_data", audio |-> <<1>>, format |-> "base64", mimeType |-> "audio/flac"],
   [type |-> "audio_data", format |-> "base64"],
   [type |-> "audio_data", audio |-> <<>>, format |-> "base64", isChunk |-> TRUE, chunkNumber |-> 0],
   [type |-> "audio_data", audio |-> <<1>>, format |-> "binary"],
   [type |-> "audio_data", audio |-> <<1>>, format |-> "base64", isChunk |-> TRUE,
    chunkNumber |-> 0, isLastChunk |-> FALSE],
   [type |-> "audio_data", audio |-> <<2>>, format |-> "base64", isChunk |-> TRUE,
    chunkNumber |-> 2, isLastChunk |-> TRUE, mimeType |-> "audio/mp3"]}

Contents == {"", "ok"}
Replies == {"ok", Null}
Transcripts == {"hi", Null}
AudioBuffers == {"mp3", Null}

\* messages arrive on an open socket
CanReceive(c) ==
  /\ c \in DOMAIN sessions
  /\ sessions[c].ws = "OPEN"
  /\ Len(inbox[c]) < MaxMsgs
\* the client of Spec sends its next input when the turn of the last one has
\* ended; config and interrupt messages it sends at any time
CanStart(c) == InFlight(c) = {}

Next ==
  \/ \E c \in ConnIds : Connect(c)
  \/ \E c \in ConnIds, data \in ConfigInputs : CanReceive(c) /\ Config(c, data)
  \/ \E c \in ConnIds, data \in ChatInputs : CanReceive(c) /\ CanStart(c) /\ ChatMessage(c, data)
  \/ \E c \in ConnIds, data \in AudioInputs : CanReceive(c) /\ CanStart(c) /\ AudioData(c, data)
  \/ \E c \in ConnIds : CanReceive(c) /\ Interrupt(c)
  \/ \E i \in DOMAIN handlers, ok \in BOOLEAN : CreateReturn(i, ok)
  \/ \E i \in DOMAIN handlers, content \in Contents : StreamChunk(i, content)
  \/ \E i \in DOMAIN handlers : StreamEnd(i)
  \/ \E i \in DOMAIN handlers : StreamError(i)
  \/ \E i \in DOMAIN handlers, reply \in Replies : GeminiReturn(i, reply)
  \/ \E i \in DOMAIN handlers, audioBuffer \in AudioBuffers : TTSReturn(i, audioBuffer)
  \/ \E i \in DOMAIN handlers, transcript \in Transcripts : STTReturn(i, transcript)

Spec == Init /\ [][Next]_vars

\* A client that sends one chat_message at a time and waits for the turn to
\* end, against the OpenAI backend: long conversations.
NextTurns ==
  \/ \E c \in ConnIds : Connect(c)
  \/ \E c \in ConnIds :
       /\ Len(inbox[c]) < MaxTurnMsgs
       /\ handlers = <<>>
       /\ ChatMessage(c, [type |-> "chat_message", message |-> "hi"])
  \/ \E i \in DOMAIN handlers, ok \in BOOLEAN : CreateReturn(i, ok)
  \/ \E i \in DOMAIN handlers, content \in Contents : StreamChunk(i, content)
  \/ \E i \in DOMAIN handlers : StreamEnd(i)

SpecTurns == Init /\ [][NextTurns]_vars

\* A client that streams its audio as chunked fragments, the k-th message
\* carrying the k-th group of its base64 stream; it numbers the fragments
\* consecutively and may start over at 0 or 1.  It waits for the answer to a
\* completed unit before it goes on; transcription finds no speech.
Mimes == {"audio/mp3", "audio/flac"}

Fragments(c) ==
  LET base == [type |-> "audio_data", audio |-> <<Len(inbox[c]) + 1>>,
               format |-> "base64", isChunk |-> TRUE]
      numbers == {0, 1} \cup (IF utterance.next >= 2 THEN {utterance.next} ELSE {})
  IN {base @@ [chunkNumber |-> cn, isLastChunk |-> last] : cn \in numbers, last \in BOOLEAN}
     \cup {base @@ [chunkNumber |-> cn, isLastChunk |-> last, mimeType |-> mime] :
             cn \in numbers, last \in BOOLEAN, mime \in Mimes}

NextChunks ==
  \/ \E c \in ConnIds : Connect(c)
  \/ \E c \in ConnIds :
       /\ c \in DOMAIN sessions
       /\ Len(inbox[c]) < MaxFragments
       /\ handlers = <<>>
       /\ \E data \in Fragments(c) : AudioData(c, data)
  \/ \E i \in DOMAIN handlers : STTReturn(i, Null)

SpecChunks == Init /\ [][NextChunks]_vars

\* A connection from its opening to its end: a client that also sends
\* messages of no known type and messages that do not parse, and a socket that
\* closes or fails at any time, also while a generation is in flight.
LifeConfig == [type |-> "config", modelId |-> "gpt-4o", audioSession |-> TRUE]
LifeFragment ==
  [type |-> "audio_data", audio |-> <<1>>, format |-> "base64", isChunk |-> TRUE,
   chunkNumber |-> 0, isLastChunk |-> FALSE]

LifeReceive(c) ==
  /\ c \in DOMAIN sessions
  /\ sessions[c].ws = "OPEN"
  /\ Len(inbox[c]) < MaxLifeMsgs

NextLife ==
  \/ \E c \in ConnIds : Connect(c)
  \/ \E c \in ConnIds : LifeReceive(c) /\ Config(c, LifeConfig)
  \/ \E c \in ConnIds :
       LifeReceive(c) /\ CanStart(c) /\ ChatMessage(c, [type |-> "chat_message", message |-> "hi"])
  \/ \E c \in ConnIds : LifeReceive(c) /\ CanStart(c) /\ AudioData(c, LifeFragment)
  \/ \E c \in ConnIds : LifeReceive(c) /\ Interrupt(c)
  \/ \E c \in ConnIds : LifeReceive(c) /\ UnknownMessage(c)
  \/ \E c \in ConnIds : LifeReceive(c) /\ MalformedMessage(c)
  \/ \E c \in ConnIds : Close(c)
  \/ \E c \in ConnIds : ConnError(c)
  \/ \E i \in DOMAIN handlers, ok \in BOOLEAN : CreateReturn(i, ok)
  \/ \E i \in DOMAIN handlers : StreamEnd(i)
  \/ \E i \in DOMAIN handlers, audioBuffer \in AudioBuffers : TTSReturn(i, audioBuffer)

SpecLife == Init /\ [][NextLife]_vars

\* A client that reconfigures its session: config messages with every
\* combination of fields the claims speak of, sent to a session that may hold
\* Turns and a buffered fragment.
VoiceInputs ==
  {[tag |-> "string", value |-> "hi-IN-Chirp3-HD-Zephyr"],
   [tag |-> "string", value |-> "en-IN-Chirp3-HD-Zephyr"],
   [tag |-> "string", value |-> "hi-IN-Chirp3-HD-Orus"],
   [tag |-> "string", value |-> "Puck"],
   [tag |-> "object", value |-> [name |-> "en-IN-Chirp3-HD-Zephyr"]],
   [tag |-> "object", value |-> [languageCode |-> "hi-IN"]],
   [tag |-> "object", value |-> [languageCode |-> "hi-IN", ssmlGender |-> "FEMALE",
                                 name |-> "hi-IN-Chirp3-HD-Zephyr"]]}

RichConfigInputs ==
  {[type |-> "config"],
   [type |-> "config", modelId |-> "gpt-4o"],
   [type |-> "config", modelId |-> "", modelType |-> "gemini"],
   [type |-> "config", audioSession |-> TRUE]}
  \cup {[type |-> "config", voice |-> voice] : voice \in VoiceInputs}

ConfigReceive(c) ==
  /\ c \in DOMAIN sessions
  /\ Len(inbox[c]) < MaxConfigMsgs

NextConfig ==
  \/ \E c \in ConnIds : Connect(c)
  \/ \E c \in ConnIds, data \in RichConfigInputs : ConfigReceive(c) /\ Config(c, data)
  \/ \E c \in ConnIds :
       ConfigReceive(c) /\ CanStart(c) /\ ChatMessage(c, [type |-> "chat_message", message |-> "hi"])
  \/ \E c \in ConnIds : ConfigReceive(c) /\ CanStart(c) /\ AudioData(c, LifeFragment)
  \/ \E i \in DOMAIN handlers, reply \in {"ok"} : GeminiReturn(i, reply)
  \/ \E i \in DOMAIN handlers : CreateReturn(i, TRUE)
  \/ \E i \in DOMAIN handlers : StreamEnd(i)
  \/ \E i \in DOMAIN handlers : TTSReturn(i, "mp3")

SpecConfig == Init /\ [][NextConfig]_vars

\* Clients of POST /api/chat, one call at a time, next to a WebSocket
\* connection whose id they may pass as sessionId once the server has sent it
\* to them; the connection sets its voice by name and may interrupt.
RestVoices ==
  {[tag |-> "string", value |-> "hi-IN-Chirp3-HD-Zephyr"],
   [tag |-> "string", value |-> "Puck"]}

RestBodies ==
  {[message |-> "hi"],
   [sessionId |-> "c1"],
   [message |-> "hi", sessionId |-> "c1", voice |-> [tag |-> "string", value |-> "hi-IN-Chirp3-HD-Zephyr"]],
   [message |-> "hi", sessionId |-> "r1"],
   [message |-> "hi", sessionId |-> "r1", modelType |-> "gemini",
    voice |-> [tag |-> "string", value |-> "Puck"]]}

\* the calls of POST /api/chat so far
RestCalls == Len(responses) + Cardinality({i \in DOMAIN handlers : handlers[i].kind = "rest"})

RestReceive(c) ==
  /\ c \in DOMAIN sessions
  /\ Len(inbox[c]) + RestCalls < MaxRestEvents

NextRest ==
  \/ \E c \in ConnIds : Connect(c)
  \/ \E c \in ConnIds, voice \in RestVoices :
       RestReceive(c) /\ Config(c, [type |-> "config", voice |-> voice])
  \/ \E c \in ConnIds : RestReceive(c) /\ Interrupt(c)
  \/ \E body \in RestBodies, includeAudio \in BOOLEAN, uuid \in RestIds \ DOMAIN sessions :
       /\ Len(inbox["c1"]) + RestCalls < MaxRestEvents
       /\ handlers = <<>>
       /\ (Has(body, "sessionId") /\ body.sessionId \in ConnIds) => body.sessionId \in DOMAIN sessions
       /\ RestChat(body, includeAudio, uuid)
  \/ \E i \in DOMAIN handlers, ok \in BOOLEAN : CreateReturn(i, ok)
  \/ \E i \in DOMAIN handlers : StreamEnd(i)
  \/ \E i \in DOMAIN handlers, reply \in Replies : GeminiReturn(i, reply)
  \/ \E i \in DOMAIN handlers, audioBuffer \in AudioBuffers : TTSReturn(i, audioBuffer)

SpecRest == Init /\ [][NextRest]_vars

\* Clients with and without the secret, against a process with and without
\* a configured secret: upgrade requests and REST calls with a missing, an
\* empty, a wrong or the right key.
Secrets == {Null, "k1"}
Keys == {Null, "", "k1", "k2"}

InitAuth == Boot(Secrets)

NextAuth ==
  \/ \E c \in ConnIds, apiKey \in Keys : Upgrade(c, apiKey)
  \/ \E headerKey \in Keys, queryKey \in Keys, uuid \in RestIds \ DOMAIN sessions,
        body \in {[message |-> "hi"], [message |-> "hi", sessionId |-> "c1"]} :
       /\ RestCalls + Cardinality({k \in DOMAIN responses : responses[k].status = 401})
            < MaxAuthRequests
       /\ Has(body, "sessionId") => body.sessionId \in DOMAIN sessions
       /\ RestRequest(headerKey, queryKey, body, FALSE, uuid)
  \/ \E c \in ConnIds :
       /\ c \in DOMAIN sessions
       /\ Len(inbox[c]) < MaxAuthRequests
       /\ CanStart(c)
       /\ ChatMessage(c, [type |-> "chat_message", message |-> "hi"])
  \/ \E i \in DOMAIN handlers : CreateReturn(i, TRUE)
  \/ \E i \in DOMAIN handlers : StreamEnd(i)

SpecAuth == InitAuth /\ [][NextAuth]_vars

\* A client that does not wait: it sends its next message while the answer
\* to the last one is still being produced.  The 'message' listener is an
\* async function (server.js:339), so each message starts its handler when it
\* arrives, whatever the handlers of earlier messages are waiting for.
RaceAudio == [type |-> "audio_data", audio |-> <<1>>, format |-> "base64"]

RaceReceive(c) ==
  /\ c \in DOMAIN sessions
  /\ sessions[c].ws = "OPEN"
  /\ Len(inbox[c]) < MaxRaceMsgs

NextRace ==
  \/ \E c \in ConnIds : Connect(c)
  \/ \E c \in ConnIds : RaceReceive(c) /\ Config(c, LifeConfig)
  \/ \E c \in ConnIds :
       RaceReceive(c) /\ ChatMessage(c, [type |-> "chat_message", message |-> "hi"])
  \/ \E c \in ConnIds : RaceReceive(c) /\ AudioData(c, RaceAudio)
  \/ \E i \in DOMAIN handlers : CreateReturn(i, TRUE)
  \/ \E i \in DOMAIN handlers : StreamEnd(i)
  \/ \E i \in DOMAIN handlers : TTSReturn(i, "mp3")
  \/ \E i \in DOMAIN handlers : STTReturn(i, "hi")

SpecRace == Init /\ [][NextRace]_vars

\* A client that sends chat messages without waiting, with at most two
\* answers outstanding, for long enough to fill the context.
NextRaceTurns ==
  \/ \E c \in ConnIds : Connect(c)
  \/ \E c \in ConnIds :
       /\ c \in DOMAIN sessions
       /\ Len(inbox[c]) < MaxRaceTurnMsgs
       /\ Len(handlers) < 2
       /\ ChatMessage(c, [type |-> "chat_message", message |-> "hi"])
  \/ \E i \in DOMAIN handlers : CreateReturn(i, TRUE)
  \/ \E i \in DOMAIN handlers : StreamEnd(i)

SpecRaceTurns == Init /\ [][NextRaceTurns]_vars

\* A client that streams chunked fragments without waiting: it goes on
\* sending while a completed unit is being transcribed.  It numbers its
\* fragments consecutively from 1; it starts over at 1, or marks a fragment
\* as the last, only when no unit is being processed.  Transcription finds
\* no speech.
RaceFragments(c) ==
  LET base == [type |-> "audio_data", audio |-> <<Len(inbox[c]) + 1>>,
               format |-> "base64", isChunk |-> TRUE]
      numbers == (IF handlers = <<>> \/ utterance.next < 2 THEN {1} ELSE {})
                 \cup (IF utterance.next >= 2 THEN {utterance.next} ELSE {})
      marks == IF handlers = <<>> THEN BOOLEAN ELSE {FALSE}
  IN {base @@ [chunkNumber |-> cn, isLastChunk |-> last] : cn \in numbers, last \in marks}

NextRaceChunks ==
  \/ \E c \in ConnIds : Connect(c)
  \/ \E c \in ConnIds :
       /\ c \in DOMAIN sessions
       /\ Len(inbox[c]) < MaxRaceFragments
       /\ \E data \in RaceFragments(c) : AudioData(c, data)
  \/ \E i \in DOMAIN handlers : STTReturn(i, Null)

SpecRaceChunks == Init /\ [][NextRaceChunks]_vars

\* A connection that ends while work is in flight: the socket closes or
\* fails at any time, the backends answer afterwards.  The client sends one
\* input at a time.
GoneReceive(c) ==
  /\ c \in DOMAIN sessions
  /\ sessions[c].ws = "OPEN"
  /\ Len(inbox[c]) < MaxGoneMsgs

NextGone ==
  \/ \E c \in ConnIds : Connect(c)
  \/ \E c \in ConnIds : GoneReceive(c) /\ Config(c, LifeConfig)
  \/ \E c \in ConnIds :
       GoneReceive(c) /\ CanStart(c) /\ ChatMessage(c, [type |-> "chat_message", message |-> "hi"])
  \/ \E c \in ConnIds : GoneReceive(c) /\ CanStart(c) /\ AudioData(c, RaceAudio)
  \/ \E c \in ConnIds : GoneReceive(c) /\ Interrupt(c)
  \/ \E c \in ConnIds : Close(c)
  \/ \E c \in ConnIds : ConnError(c)
  \/ \E i \in DOMAIN handlers, ok \in BOOLEAN : CreateReturn(i, ok)
  \/ \E i \in DOMAIN handlers : StreamEnd(i)
  \/ \E i \in DOMAIN handlers, audioBuffer \in AudioBuffers : TTSReturn(i, audioBuffer)
  \/ \E i \in DOMAIN handlers, transcript \in Transcripts : STTReturn(i, transcript)

SpecGone == Init /\ [][NextGone]_vars

\* Backends that answer: every call made for a turn eventually returns or
\* fails (a stream eventually ends or throws).  The client sends one input at
\* a time and may reconfigure, interrupt or close at any moment.
BackendSettles(n) ==
  \E i \in DOMAIN handlers :
    /\ handlers[i].n = n
    /\ \/ \E ok \in BOOLEAN : CreateReturn(i, ok)
       \/ StreamEnd(i)
       \/ StreamError(i)
       \/ \E audioBuffer \in AudioBuffers : TTSReturn(i, audioBuffer)
       \/ \E transcript \in Transcripts : STTReturn(i, transcript)

LiveReceive(c) ==
  /\ c \in DOMAIN sessions
  /\ sessions[c].ws = "OPEN"
  /\ Len(inbox[c]) < MaxLiveMsgs

NextLive ==
  \/ \E c \in ConnIds : Connect(c)
  \/ \E c \in ConnIds : LiveReceive(c) /\ Config(c, LifeConfig)
  \/ \E c \in ConnIds :
       LiveReceive(c) /\ CanStart(c) /\ ChatMessage(c, [type |-> "chat_message", message |-> "hi"])
  \/ \E c \in ConnIds : LiveReceive(c) /\ CanStart(c) /\ AudioData(c, RaceAudio)
  \/ \E c \in ConnIds : LiveReceive(c) /\ Interrupt(c)
  \/ \E c \in ConnIds : Close(c)
  \/ \E n \in 1 .. MaxLiveMsgs : BackendSettles(n)
  \/ \E i \in DOMAIN handlers, content \in Contents : StreamChunk(i, content)

SpecLive ==
  Init /\ [][NextLive]_vars /\ \A n \in 1 .. MaxLiveMsgs : WF_vars(BackendSettles(n))

\* Two connections open at the same time, each with a client that sends one
\* input at a time; either may reconfigure, interrupt or close at any moment.
PeerConfig ==
  [type |-> "config", modelId |-> "gpt-4o", audioSession |-> TRUE,
   voice |-> [tag |-> "string", value |-> "hi-IN-Chirp3-HD-Zephyr"]]

PeerReceive(c) ==
  /\ c \in DOMAIN sessions
  /\ sessions[c].ws = "OPEN"
  /\ Len(inbox["c1"]) + Len(inbox["c2"]) < MaxPeerMsgs

NextPeers ==
  \/ \E c \in ConnIds \cup PeerIds : Connect(c)
  \/ \E c \in ConnIds \cup PeerIds : PeerReceive(c) /\ Config(c, PeerConfig)
  \/ \E c \in ConnIds \cup PeerIds :
       PeerReceive(c) /\ CanStart(c) /\ ChatMessage(c, [type |-> "chat_message", message |-> "hi"])
  \/ \E c \in ConnIds \cup PeerIds : PeerReceive(c) /\ CanStart(c) /\ AudioData(c, LifeFragment)
  \/ \E c \in ConnIds \cup PeerIds : PeerReceive(c) /\ Interrupt(c)
  \/ \E c \in ConnIds \cup PeerIds : Close(c)
  \/ \E i \in DOMAIN handlers : CreateReturn(i, TRUE)
  \/ \E i \in DOMAIN handlers : StreamEnd(i)
  \/ \E i \in DOMAIN handlers : TTSReturn(i, "mp3")

SpecPeers == Init /\ [][NextPeers]_vars

\* ================================================================ claims
Last(s) == s[Len(s)]
Count(s, type) == Cardinality({i \in DOMAIN s : s[i].type = type})
Roles(s, role) == Cardinality({i \in DOMAIN s : s[i].role = role})
Flag(c) == sessions[c].isResponseInterrupted
IsFragment(data) ==
  /\ TruthyAudio(data)
  /\ Has(data, "format") /\ data.format = "base64"
  /\ Has(data, "isChunk") /\ data.isChunk = TRUE
IsLastFragment(data) == IsFragment(data) /\ Has(data, "isLastChunk") /\ data.isLastChunk = TRUE

\* C1: after any append the context holds at most 10 Turns, and once more
\* than 10 Turns were appended it is exactly the last 10 appended, oldest
\* first.  (Stated as the claim has it; the code does not keep it.)
C1_ContextCap ==
  \A c \in DOMAIN sessions :
    LET ctx == sessions[c].conversationContext
        all == appended[c]
    IN /\ Len(ctx) <= ContextCap
       /\ Len(all) > ContextCap => ctx = SubSeq(all, Len(all) - ContextCap + 1, Len(all))

\* C2: a turn whose generation was in flight when an interrupt was handled
\* gets no assistant Turn, no bot_message and no audio_message, whatever
\* messages arrive before the generation concludes.  (As the claim has it.)
C2_InterruptSuppresses ==
  \A n \in DOMAIN turns :
    turns[n].intr => turns[n].asst = 0 /\ turns[n].bot = 0 /\ turns[n].audio = 0

\* C3: a step appends an assistant Turn only if the interrupted flag is
\* false when the generation concludes (the flag is read and the Turn pushed
\* in one step, so it is false before and after that step).
C3_AssistantOnlyIfNotInterrupted ==
  [][\A c \in DOMAIN sessions :
       Roles(appended'[c], "assistant") > Roles(appended[c], "assistant")
         => ~Flag(c) /\ ~sessions'[c].isResponseInterrupted]_vars

\* C3 witness: an assistant Turn was appended at the end of a stream in a
\* session that had been interrupted and was given new input since.
C3_Witness ==
  \E c \in DOMAIN sessions :
    /\ lastEvent.kind = "stream_end"
    /\ appended[c] # <<>> /\ Last(appended[c]).role = "assistant"
    /\ \E i \in DOMAIN inbox[c] : inbox[c][i] = "interrupt"

\* C4 as the claim has it: the flag falls only in the handling of a
\* chat_message or an audio_data message and rises only in the handling of an
\* interrupt.
C4_FlagTransitions_Original ==
  [][\A c \in DOMAIN sessions :
       /\ Flag(c) /\ ~sessions'[c].isResponseInterrupted
            => lastEvent'.kind \in {"chat_message", "audio_data"}
       /\ ~Flag(c) /\ sessions'[c].isResponseInterrupted
            => lastEvent'.kind = "interrupt"]_vars

\* C4 amended: the flag falls only in the handling of a config, chat_message
\* or audio_data message and rises only in the handling of an interrupt; no
\* backend return and no other step changes it.
C4_FlagTransitions ==
  [][\A c \in DOMAIN sessions :
       /\ Flag(c) /\ ~sessions'[c].isResponseInterrupted
            => lastEvent'.kind \in {"config", "chat_message", "audio_data"}
       /\ ~Flag(c) /\ sessions'[c].isResponseInterrupted
            => lastEvent'.kind = "interrupt"]_vars

\* C4 witness: a config message has just cleared the flag that the interrupt
\* before it had set, while a generation was in flight.
C4_Witness ==
  \E c \in DOMAIN sessions :
    /\ lastEvent.kind = "config"
    /\ Len(inbox[c]) >= 2 /\ inbox[c][Len(inbox[c]) - 1] = "interrupt"
    /\ ~Flag(c)
    /\ \E i \in InFlight(c) : handlers[i].pc \in GeneratingPcs

\* C5: an utterance sent as n <= 10 fragments numbered 0..n-1, the last one
\* marked isLastChunk, is handed to transcription as the concatenation of
\* all n fragments.  (As the claim has it; the code drops fragment 0.)
C5_Reassembly ==
  \A c \in DOMAIN sessions :
    ( /\ lastEvent.kind = "audio_data"
      /\ IsLastFragment(lastEvent.data)
      /\ utterance.start = 0
      /\ Len(utterance.frags) <= ChunkThreshold )
    => /\ lastEvent.completed
       /\ handlers # <<>>
       /\ Last(handlers).audioBuffer = B64Decode(Join(utterance.frags))

\* C6: of 10 consecutive fragments without a last-chunk marker and without a
\* container mime type, numbered from 0 or from 1, the 10th triggers the
\* completion and none before it does.  (As the claim has it.)
C6_CompletionByCount ==
  ( /\ lastEvent.kind = "audio_data"
    /\ IsFragment(lastEvent.data)
    /\ ~IsLastFragment(lastEvent.data)
    /\ utterance.start \in {0, 1}
    /\ ~utterance.flac
    /\ Len(utterance.frags) <= ChunkThreshold )
  => (lastEvent.completed <=> Len(utterance.frags) = ChunkThreshold)

\* C7: a chunked fragment marked isLastChunk completes the unit in the step
\* that handles it, whatever the buffer length and the mime type: the buffer,
\* ending with that fragment, is decoded and handed to transcription.
C7_LastChunkCompletes ==
  \A c \in DOMAIN sessions :
    (lastEvent.kind = "audio_data" /\ IsLastFragment(lastEvent.data))
    => /\ lastEvent.completed
       /\ handlers # <<>>
       /\ Last(handlers).pc = "stt"
       /\ Last(sessions[c].audioChunks) = lastEvent.data.audio
       /\ Last(handlers).audioBuffer = B64Decode(Join(sessions[c].audioChunks))
       /\ Last(handlers).mimeType =
            OrDefault(lastEvent.data, "mimeType", "audio/webm;codecs=opus")

\* C7 witness: a FLAC unit of three fragments completed by the marker.
C7_Witness ==
  \E c \in DOMAIN sessions :
    /\ lastEvent.kind = "audio_data"
    /\ IsLastFragment(lastEvent.data)
    /\ lastEvent.completed
    /\ Len(sessions[c].audioChunks) = 3
    /\ handlers # <<>> /\ Last(handlers).mimeType = "audio/flac"

\* C8: a fragment numbered 0 discards what the buffer held, so the buffer is
\* that fragment alone, and a completed unit holds no byte of a fragment
\* received before the latest fragment numbered 0.
C8_NewUtteranceReset ==
  \A c \in DOMAIN sessions :
    /\ ( /\ lastEvent.kind = "audio_data"
         /\ IsFragment(lastEvent.data)
         /\ Has(lastEvent.data, "chunkNumber") /\ lastEvent.data.chunkNumber = 0 )
       => sessions[c].audioChunks = <<lastEvent.data.audio>>
    /\ (lastEvent.kind = "audio_data" /\ lastEvent.completed /\ handlers # <<>>)
       => \A k \in DOMAIN Last(handlers).audioBuffer :
            Last(handlers).audioBuffer[k] >= 3 * utterance.lastZero - 2

\* C8 witness: a unit completed after a fragment numbered 0 had discarded a
\* buffer that held fragments of an incomplete utterance.
C8_Witness ==
  /\ lastEvent.kind = "audio_data"
  /\ lastEvent.completed
  /\ utterance.lastZero > 1
  /\ utterance.dropped > 1

\* C9: a chat_message without a message, or an audio_data without audio,
\* sends exactly one error and changes nothing else: no Turn, no handler (no
\* backend call), the session object as it was.
C9_RequiredFields ==
  [][\A c \in DOMAIN sessions :
       /\ (lastEvent'.kind = "chat_message" /\ ~TruthyStr(lastEvent'.data, "message"))
          => /\ outbox'[c] = Append(outbox[c], [type |-> "error", error |-> "Message is required"])
             /\ sessions'[c] = sessions[c]
             /\ UNCHANGED <<appended, handlers, turns>>
       /\ (lastEvent'.kind = "audio_data" /\ ~TruthyAudio(lastEvent'.data))
          => /\ Len(outbox'[c]) = Len(outbox[c]) + 1
             /\ Last(outbox'[c]).type = "error"
             /\ sessions'[c] = sessions[c]
             /\ UNCHANGED <<appended, handlers, turns>>]_vars

\* C9 witness: an empty chat_message refused while the session is interrupted
\* and holds a buffered fragment.
C9_Witness ==
  \E c \in DOMAIN sessions :
    /\ lastEvent.kind = "chat_message"
    /\ ~TruthyStr(lastEvent.data, "message")
    /\ Last(outbox[c]) = [type |-> "error", error |-> "Message is required"]
    /\ Flag(c)
    /\ sessions[c].audioChunks # <<>>

\* C10: config with audioSession false, then one chat_message: when the turn
\* has ended there is exactly one bot_message, one user Turn, one assistant
\* Turn and no audio_message, whatever the backend did.  (As the claim has it.)
C10_EndToEndText ==
  \A c \in DOMAIN sessions :
    ( /\ inbox[c] = <<"config", "chat_message">>
      /\ Len(turns) = 1
      /\ InFlight(c) = {}
      /\ ~sessions[c].audioSession )
    => /\ Count(outbox[c], "bot_message") = 1
       /\ Roles(appended[c], "user") = 1
       /\ Roles(appended[c], "assistant") = 1
       /\ Count(outbox[c], "audio_message") = 0

\* the voice name a config message asks for
VoiceName(voice) == IF voice.tag = "string" THEN voice.value ELSE voice.value.name

\* the positions in s of the messages of one type
Positions(s, type) == {i \in DOMAIN s : s[i].type = type}

\* C11: config with audioSession true and a voice name, then one
\* chat_message, no interrupt, the synthesis succeeds: when the turn has ended
\* the client has got exactly one bot_message, after it exactly one
\* audio_message, and that one carries the configured voice name.
C11_EndToEndAudio ==
  \A c \in DOMAIN sessions :
    ( /\ inbox[c] = <<"config", "chat_message">>
      /\ Len(turns) = 1
      /\ InFlight(c) = {}
      /\ sessions[c].ws = "OPEN"
      /\ sessions[c].audioSession
      /\ turns[1].tts = "ok" )
    => /\ Count(outbox[c], "bot_message") = 1
       /\ Count(outbox[c], "audio_message") = 1
       /\ \A i \in Positions(outbox[c], "bot_message"), j \in Positions(outbox[c], "audio_message") :
            /\ i < j
            /\ \E data \in ConfigInputs :
                 /\ Has(data, "voice") /\ data.audioSession
                 /\ OrDefault(data, "modelType", "openai") = sessions[c].modelType
                 /\ outbox[c][j].voice = VoiceName(data.voice)

\* C11 witness: such a turn has ended with its audio_message sent.
C11_Witness ==
  \E c \in DOMAIN sessions :
    /\ inbox[c] = <<"config", "chat_message">>
    /\ InFlight(c) = {}
    /\ sessions[c].audioSession
    /\ Len(turns) = 1 /\ turns[1].tts = "ok"
    /\ Last(outbox[c]).type = "audio_message"
    /\ Last(outbox[c]).voice = "hi-IN-Chirp3-HD-Zephyr"

\* C12: a message whose type is none of the known kinds sends exactly one
\* error, "Unknown message type", and changes nothing of the session: context,
\* flag, configuration, audio buffer, registry membership, handlers in flight.
C12_UnknownKind ==
  [][\A c \in DOMAIN sessions :
       lastEvent'.kind = "unknown"
       => /\ outbox'[c] = Append(outbox[c], [type |-> "error", error |-> "Unknown message type"])
          /\ sessions'[c] = sessions[c]
          /\ UNCHANGED <<activeConnections, appended, handlers, turns>>]_vars

\* C12 witness: such a message handled in an interrupted session that holds
\* Turns and a buffered fragment, while a generation is in flight.
C12_Witness ==
  \E c \in DOMAIN sessions :
    /\ lastEvent.kind = "unknown"
    /\ Last(outbox[c]) = [type |-> "error", error |-> "Unknown message type"]
    /\ Flag(c)
    /\ sessions[c].conversationContext # <<>>
    /\ sessions[c].audioChunks # <<>>
    /\ InFlight(c) # {}

\* C13: a message that does not parse sends exactly one error, "Failed to
\* process message", and changes nothing of the session; the session stays in
\* the registry with its socket open, so that later messages are handled.
C13_Malformed ==
  [][\A c \in DOMAIN sessions :
       lastEvent'.kind = "malformed"
       => /\ outbox'[c] = Append(outbox[c], [type |-> "error", error |-> "Failed to process message"])
          /\ sessions'[c] = sessions[c]
          /\ c \in activeConnections'
          /\ sessions'[c].ws = "OPEN"
          /\ UNCHANGED <<activeConnections, appended, handlers, turns>>]_vars

\* C13 witness: a chat_message answered after a message that did not parse
\* had been refused.
C13_Witness ==
  \E c \in DOMAIN sessions :
    /\ Len(inbox[c]) >= 2
    /\ inbox[c][Len(inbox[c]) - 1] = "malformed"
    /\ inbox[c][Len(inbox[c])] = "chat_message"
    /\ lastEvent.kind = "stream_end"
    /\ c \in activeConnections
    /\ Last(outbox[c]).type = "bot_message"
    /\ \E i \in DOMAIN outbox[c] : outbox[c][i] = [type |-> "error", error |-> "Failed to process message"]

\* the turns for which the backend call named call ends as outcome in this step
Settling(call, outcome) ==
  {n \in DOMAIN turns : turns[n][call] # outcome /\ turns'[n][call] = outcome}

\* the connection of turn n, a turn with a handler in flight
ConnOf(n) == handlers[CHOOSE i \in DOMAIN handlers : handlers[i].n = n].c

\* C14: when the text generation fails in a turn that is not interrupted,
\* with either backend, the apology is appended as the assistant Turn and sent
\* as the bot_message, it goes to synthesis when audioSession is true, and no
\* error is sent.  (As the claim has it; the OpenAI path appends nothing.)
C14_GenerationFailure ==
  [][\A n \in Settling("gen", "fail") :
       LET c == ConnOf(n) IN
       ~Flag(c)
       => /\ appended'[c] = Append(appended[c], [role |-> "assistant", content |-> Apology])
          /\ outbox'[c] = Append(outbox[c], [type |-> "bot_message", text |-> Apology])
          /\ turns'[n].err = 0
          /\ sessions[c].audioSession
             => \E i \in DOMAIN handlers' :
                  /\ handlers'[i].n = n
                  /\ handlers'[i].pc = "tts"
                  /\ handlers'[i].response = Apology]_vars

\* C15: when the transcription of a completed unit gives no result, exactly
\* one error is sent; no transcript, bot_message or audio_message is sent, no
\* Turn is appended and the turn ends without a text generation call.
C15_TranscriptionFailure ==
  [][\A n \in Settling("stt", "fail") :
       LET c == ConnOf(n) IN
       /\ outbox'[c] = Append(outbox[c], [type |-> "error", error |-> "Could not transcribe audio"])
       /\ appended'[c] = appended[c]
       /\ sessions'[c].conversationContext = sessions[c].conversationContext
       /\ turns'[n].gen = ""
       /\ turns'[n].user = 0 /\ turns'[n].asst = 0
       /\ turns'[n].tr = 0 /\ turns'[n].bot = 0 /\ turns'[n].audio = 0
       /\ turns'[n].err = 1
       /\ \A i \in DOMAIN handlers' : handlers'[i].n # n]_vars

\* C15 witness: the transcription of a unit completed from chunked fragments
\* has failed, in a session that holds Turns of an earlier input.
C15_Witness ==
  \E c \in DOMAIN sessions :
    /\ lastEvent.kind = "stt_return"
    /\ turns[lastEvent.n].stt = "fail"
    /\ Last(outbox[c]) = [type |-> "error", error |-> "Could not transcribe audio"]
    /\ sessions[c].conversationContext # <<>>

\* C16: when audioSession is true and the synthesis fails, the turn has got
\* its bot_message and its assistant Turn, and neither an audio_message nor an
\* error is sent.  (As the claim has it; after a failed OpenAI generation the
\* assistant Turn is missing.)
C16_SynthesisFailure ==
  [][\A n \in Settling("tts", "fail") :
       LET c == ConnOf(n) IN
       /\ outbox'[c] = outbox[c]
       /\ turns'[n].bot = 1
       /\ turns'[n].asst = 1
       /\ turns'[n].audio = 0
       /\ turns'[n].err = 0]_vars

\* the sub-fields of the voice selector
VoiceFields == {"languageCode", "ssmlGender", "name"}

\* C17: a config message changes only the session fields it carries and
\* leaves every absent field, also every absent sub-field of a voice object,
\* as it was; the context and the audio buffer stay as they were, and exactly
\* one config_acknowledged is sent with the resulting voice and model.  (As
\* the claim has it; a voice object resets its absent sub-fields.)
C17_ConfigPartialUpdate ==
  [][\A c \in DOMAIN sessions :
       lastEvent'.kind = "config"
       => LET data == lastEvent'.data
              old == sessions[c]
              new == sessions'[c]
          IN /\ new.modelId = IF TruthyStr(data, "modelId") THEN data.modelId ELSE old.modelId
             /\ new.modelType = IF TruthyStr(data, "modelType") THEN data.modelType ELSE old.modelType
             /\ new.audioSession = IF Has(data, "audioSession") THEN data.audioSession ELSE old.audioSession
             /\ ~Has(data, "voice") => new.voiceConfig = old.voiceConfig
             /\ (Has(data, "voice") /\ data.voice.tag = "string")
                => /\ new.voiceConfig.name = data.voice.value
                   /\ new.voiceConfig.ssmlGender = old.voiceConfig.ssmlGender
             /\ (Has(data, "voice") /\ data.voice.tag = "object")
                => \A f \in VoiceFields :
                     new.voiceConfig[f] = IF TruthyStr(data.voice.value, f)
                                          THEN data.voice.value[f] ELSE old.voiceConfig[f]
             /\ new.conversationContext = old.conversationContext
             /\ new.audioChunks = old.audioChunks
             /\ UNCHANGED <<appended, handlers, turns, activeConnections>>
             /\ outbox'[c] = Append(outbox[c],
                                    [type |-> "config_acknowledged",
                                     voice |-> new.voiceConfig,
                                     model |-> [id |-> new.modelId, type |-> new.modelType]])]_vars

\* C19: a connection adds exactly one registry entry, its session holding
\* the defaults; the close and the error event of the connection remove the
\* entry, so that the registry holds an entry for a connection id exactly
\* while that connection's socket is open.
C19_SessionLifecycle ==
  [][/\ lastEvent'.kind = "connection"
        => LET c == lastEvent'.c IN
           /\ c \notin activeConnections
           /\ activeConnections' = activeConnections \cup {c}
           /\ sessions'[c].id = c
           /\ sessions'[c].modelType = "openai"
           /\ sessions'[c].modelId = "gpt-4o-mini"
           /\ sessions'[c].voiceConfig =
                [languageCode |-> "en-IN", ssmlGender |-> "MALE", name |-> "en-IN-Chirp3-HD-Orus"]
           /\ sessions'[c].audioSession = FALSE
           /\ sessions'[c].isResponseInterrupted = FALSE
           /\ sessions'[c].conversationContext = <<>>
           /\ sessions'[c].audioChunks = <<>>
     /\ lastEvent'.kind \in {"close", "error"}
        => /\ lastEvent'.c \notin activeConnections'
           /\ activeConnections' = activeConnections \ {lastEvent'.c}
     /\ \A c \in ConnIds :
          c \in activeConnections' <=> (c \in DOMAIN sessions' /\ sessions'[c].ws = "OPEN")]_vars

\* C19 witness: the socket has closed with a generation still in flight for
\* the session the registry no longer holds.
C19_Witness ==
  \E c \in DOMAIN sessions :
    /\ lastEvent.kind = "close"
    /\ c \notin activeConnections
    /\ InFlight(c) # {}
    /\ sessions[c].conversationContext # <<>>

\* the language of each voice the service supports (server.js:829-851): the
\* leading xx-YY of its name
SupportedLanguage ==
  [v \in {"en-IN-Chirp3-HD-Orus", "en-IN-Chirp3-HD-Zephyr",
          "hi-IN-Chirp3-HD-Orus", "hi-IN-Chirp3-HD-Zephyr"} |->
     IF v \in {"en-IN-Chirp3-HD-Orus", "en-IN-Chirp3-HD-Zephyr"} THEN "en-IN" ELSE "hi-IN"]

NamesVoice(data) == Has(data, "voice") /\ data.voice.tag = "string" /\ data.voice.value # ""

\* C18: a voice set by its name alone, in a config message or in a REST chat
\* call, gives the session that name and the name's leading xx-YY as language
\* code, and the config message resolves the name to the voice selector that
\* the REST call resolves it to.  (As the claim has it; the two differ in the
\* gender, and in the language code of a name without a prefix.)
C18_VoiceNameParsing ==
  [][/\ (lastEvent'.kind = "config" /\ NamesVoice(lastEvent'.data))
        => LET c == lastEvent'.c
               v == lastEvent'.data.voice.value
           IN /\ sessions'[c].voiceConfig.name = v
              /\ v \in DOMAIN SupportedLanguage
                 => sessions'[c].voiceConfig.languageCode = SupportedLanguage[v]
              /\ sessions'[c].voiceConfig = RestVoice(sessions[c].voiceConfig, lastEvent'.data)
     /\ (lastEvent'.kind = "rest_chat" /\ lastEvent'.c # "" /\ NamesVoice(lastEvent'.body))
        => LET c == lastEvent'.c
               v == lastEvent'.body.voice.value
           IN /\ sessions'[c].voiceConfig.name = v
              /\ v \in DOMAIN SupportedLanguage
                 => sessions'[c].voiceConfig.languageCode = SupportedLanguage[v]]_vars

\* the HTTP responses that carry an answer
Answers == {k \in DOMAIN responses : responses[k].status = 200}

Authentic(apiKey) == apiKey \notin {Null, ""} /\ apiSecretKey # Null /\ apiKey = apiSecretKey

\* C21: an upgrade request or a REST chat call that presents no key, or a key
\* that is not the configured secret, or any key when no secret is configured,
\* creates no session, changes no session, sends nothing on a socket and
\* starts no backend call; a connection and a chat call come about only for a
\* request that presented the secret.
C21_Authentication ==
  [][/\ lastEvent'.kind \in {"upgrade_rejected", "rest_rejected"}
        => UNCHANGED <<sessions, activeConnections, handlers, appended, turns, outbox>>
     /\ lastEvent'.kind = "connection" => Authentic(lastEvent'.apiKey)
     /\ lastEvent'.kind = "rest_chat"
        => Authentic(lastEvent'.headerKey) \/ Authentic(lastEvent'.queryKey)
     /\ apiSecretKey = Null
        => /\ DOMAIN sessions' = {} /\ activeConnections' = {} /\ handlers' = <<>>
           /\ \A k \in DOMAIN responses' : responses'[k].status = 401]_vars

\* C21 witness: a REST call with a wrong key, naming a live session with a
\* generation in flight, has been refused.
C21_Witness ==
  /\ lastEvent.kind = "rest_rejected"
  /\ Has(lastEvent.body, "sessionId") /\ lastEvent.body.sessionId \in activeConnections
  /\ lastEvent.headerKey = "k2"
  /\ handlers # <<>>
  /\ Last(responses).status = 401

\* C22: in the step that starts to process new user input on a session that
\* exists (a chat_message with its message, an audio_data message with its
\* audio, a POST /api/chat that names a registered session), the interrupted
\* flag is false when the step ends, so the input is not skipped for an
\* interrupt of an earlier turn.  (As the claim has it; POST /api/chat does
\* not reset the flag.)
C22_FlagResetOnInput ==
  [][\A c \in DOMAIN sessions :
       ( /\ lastEvent'.c = c
         /\ \/ lastEvent'.kind = "chat_message" /\ ~MessageRequired(lastEvent'.data)
            \/ lastEvent'.kind = "audio_data" /\ ~AudioRequired(lastEvent'.data)
            \/ /\ lastEvent'.kind = "rest_chat"
               /\ ~MessageRequired(lastEvent'.body)
               /\ c \in activeConnections )
       => ~sessions'[c].isResponseInterrupted]_vars
\* C23: the messages of one session are processed one at a time: while the
\* handler of one message waits for a backend call, no handler of a later
\* message of that session has started, so at most one generation,
\* transcription or synthesis is in flight per session.  (As the claim has
\* it; the async listener starts a handler per message.)
C23_Serialized ==
  \A c \in DOMAIN sessions : Cardinality(InFlight(c)) <= 1
\* C24: in every reachable state the conversationContext of a session is a
\* contiguous suffix, in append order, of all the Turns ever appended to it:
\* trimming drops Turns from the front only and no step reorders, rewrites
\* or removes a Turn in the middle or at the end.
C24_HistoryOrder ==
  \A c \in DOMAIN sessions :
    LET ctx == sessions[c].conversationContext
        all == appended[c]
    IN /\ Len(ctx) <= Len(all)
       /\ ctx = SubSeq(all, Len(all) - Len(ctx) + 1, Len(all))

\* C24 witness: a chat_message has just pushed its user Turn onto a full
\* context, and the trim dropped Turns from the front.
C24_Witness ==
  \E c \in DOMAIN sessions :
    /\ lastEvent.kind = "chat_message"
    /\ Len(sessions[c].conversationContext) = ContextCap
    /\ Len(appended[c]) > ContextCap + 1
    /\ Last(appended[c]).role = "user"
\* C25: when the transcription of a completed audio unit returns a
\* transcript, the step sends a transcript event with that text, and no
\* bot_message of the turn was sent before; if the interrupted flag is true
\* at that moment the step appends no Turn and starts no generation;
\* otherwise it appends the user Turn with that text and starts the
\* generation as a chat_message does.  A bot_message of an audio turn is
\* always preceded by its transcript.
C25_TranscriptionFlow ==
  [][/\ \A n \in DOMAIN turns' :
          turns'[n].kind = "audio" /\ turns'[n].bot > 0 => turns'[n].tr = 1
     /\ (lastEvent'.kind = "stt_return" /\ lastEvent'.transcript # Null) =>
          LET c == lastEvent'.c
              n == lastEvent'.n
              text == lastEvent'.transcript
              started == {i \in DOMAIN handlers' : handlers'[i].n = n}
          IN /\ outbox'[c] = Append(outbox[c], [type |-> "transcript", text |-> text])
             /\ turns[n].bot = 0 /\ turns'[n].bot = 0
             /\ Flag(c) => /\ appended'[c] = appended[c]
                           /\ sessions'[c].conversationContext = sessions[c].conversationContext
                           /\ started = {}
             /\ ~Flag(c) =>
                  /\ appended'[c] = Append(appended[c], [role |-> "user", content |-> text])
                  /\ sessions'[c].conversationContext =
                       TrimContext(Append(sessions[c].conversationContext,
                                          [role |-> "user", content |-> text]))
                  /\ \E i \in started :
                       handlers'[i].pc = IF sessions[c].modelType = "gemini"
                                         THEN "gemini" ELSE "create"]_vars

\* C25 witness: a transcription has just returned its text to a session
\* interrupted while it ran: the transcript was sent, no Turn was pushed and
\* the turn is over.
C25_Witness ==
  /\ lastEvent.kind = "stt_return" /\ lastEvent.transcript = "hi"
  /\ Flag(lastEvent.c)
  /\ turns[lastEvent.n].tr = 1 /\ turns[lastEvent.n].user = 0
  /\ Last(outbox[lastEvent.c]).type = "transcript"
  /\ InFlight(lastEvent.c) = {}
\* C26: in an audio session, when an interrupt is handled after the turn's
\* bot_message was sent and before textToSpeech returns, no audio_message is
\* sent for that turn, whatever messages arrive in between: no audio_message
\* follows an interrupt_acknowledged that follows the bot_message it belongs
\* to.  (As the claim has it; the client sends one input at a time, so the
\* audio_message of a turn follows its bot_message with no other bot_message
\* between them.)
C26_InterruptDuringSynthesis ==
  \A c \in ConnIds :
    \A j \in DOMAIN outbox[c], k \in DOMAIN outbox[c], m \in DOMAIN outbox[c] :
      ~ /\ j < k /\ k < m
        /\ outbox[c][j].type = "bot_message"
        /\ outbox[c][k].type = "interrupt_acknowledged"
        /\ outbox[c][m].type = "audio_message"
        /\ \A x \in (j + 1) .. (m - 1) : outbox[c][x].type # "bot_message"
\* C27: an interrupt message, whatever the session is doing, sets the
\* interrupted flag in the step that handles it and sends exactly one
\* interrupt_acknowledged; the context, the model and voice configuration,
\* audioSession and the audio buffer stay as they were, and no handler in
\* flight is touched.
C27_InterruptHandling ==
  [][lastEvent'.kind = "interrupt" =>
       LET c == lastEvent'.c IN
       /\ sessions' = [sessions EXCEPT ![c].isResponseInterrupted = TRUE]
       /\ outbox' = [outbox EXCEPT ![c] = Append(@, [type |-> "interrupt_acknowledged"])]
       /\ UNCHANGED <<appended, handlers, activeConnections>>]_vars

\* C27 witness: an interrupt was just handled in a session that holds a
\* buffered fragment and a Turn, while a generation is in flight.
C27_Witness ==
  \E c \in DOMAIN sessions :
    /\ lastEvent.kind = "interrupt" /\ lastEvent.c = c
    /\ Flag(c)
    /\ Last(outbox[c]).type = "interrupt_acknowledged"
    /\ sessions[c].audioChunks # <<>>
    /\ sessions[c].conversationContext # <<>>
    /\ \E i \in InFlight(c) : handlers[i].pc \in GeneratingPcs
\* C28: a chunked utterance whose mime type, given with its first fragment,
\* is a container format (FLAC) is completed only by a fragment marked
\* isLastChunk; reaching 10 buffered fragments does not complete it.  (As
\* the claim has it; the code has no rule for container formats.)
C28_ContainerFormat ==
  ( /\ lastEvent.kind = "audio_data"
    /\ IsFragment(lastEvent.data)
    /\ utterance.mime = "audio/flac"
    /\ lastEvent.completed )
  => IsLastFragment(lastEvent.data)

\* C29: the mime type handed to transcription with a completed chunked
\* utterance is the one its first fragment (numbered 0 or 1) carried,
\* whatever mimeType the later fragments, the completing one included, carry
\* or omit.  (As the claim has it; the code takes the completing fragment's.)
C29_RecordedMimeType ==
  ( /\ lastEvent.kind = "audio_data"
    /\ IsFragment(lastEvent.data)
    /\ lastEvent.completed
    /\ utterance.mime # Null
    /\ handlers # <<>> )
  => Last(handlers).mimeType = utterance.mime
\* C30: the voice field of every audio_message is the voice name that
\* textToSpeech was called with for that audio, also when a config message
\* changed the session's voice while the call was in flight.  (As the claim
\* has it; the code reads the session's voice when it sends.)
C30_VoiceFidelity ==
  [][\A i \in DOMAIN handlers :
       ( /\ lastEvent'.kind = "tts_return"
         /\ lastEvent'.n = handlers[i].n
         /\ handlers[i].kind # "rest"
         /\ Len(outbox'[handlers[i].c]) > Len(outbox[handlers[i].c]) )
       => /\ Last(outbox'[handlers[i].c]).type = "audio_message"
          /\ Last(outbox'[handlers[i].c]).voice = handlers[i].voiceUsed]_vars
\* C31: a step taken for one WebSocket session (the handling of a config,
\* chat_message, audio_data or interrupt message, a backend return of its
\* turn, its close) leaves every other session of the registry as it was:
\* its conversationContext, interrupted flag, configuration and audio buffer,
\* and the Turns and messages recorded for it.
C31_CrossSessionIndependence ==
  [][\A d \in DOMAIN sessions :
       d # lastEvent'.c =>
         /\ sessions'[d] = sessions[d]
         /\ appended'[d] = appended[d]
         /\ outbox'[d] = outbox[d]
         /\ (d \in activeConnections <=> d \in activeConnections')]_vars

\* C31 witness: the first connection has just been interrupted while the
\* second, configured otherwise and with a Turn of its own, goes on
\* uninterrupted with its generation in flight.
C31_Witness ==
  /\ {"c1", "c2"} \subseteq DOMAIN sessions
  /\ lastEvent.kind = "interrupt" /\ lastEvent.c = "c1"
  /\ Flag("c1") /\ ~Flag("c2")
  /\ sessions["c2"].modelId # sessions["c1"].modelId
  /\ sessions["c2"].conversationContext # <<>>
  /\ sessions["c1"].conversationContext = <<>>
  /\ InFlight("c2") # {}
\* C32: when every backend call eventually returns or fails, the handler of
\* every accepted chat_message and of every completed audio unit eventually
\* finishes, whether its turn succeeded, failed or was interrupted: no turn
\* stays in flight for ever.
C32_TurnTermination ==
  \A n \in 1 .. MaxLiveMsgs :
    (\E i \in DOMAIN handlers : handlers[i].n = n)
      ~> ~(\E i \in DOMAIN handlers : handlers[i].n = n)

\* C32 witness: a turn that was interrupted while it generated and whose
\* generation then failed has ended, and the session is idle.
C32_Witness ==
  \E n \in DOMAIN turns :
    /\ turns[n].intr /\ turns[n].gen = "fail"
    /\ handlers = <<>>
    /\ lastEvent.kind \in {"create_return", "stream_error"}
\* the bytes of a decoded audio unit
Bytes(audioBuffer) == {audioBuffer[k] : k \in DOMAIN audioBuffer}

\* C33: a received fragment is part of at most one audio unit handed to
\* transcription, also when fragments arrive while an assembled unit is
\* being processed: two units of a session that are in processing at the same
\* time share no fragment.  (As the claim has it, for the units the model
\* still holds; the code leaves a handed unit in the buffer until its
\* processing ends.)
C33_NoFragmentTwice ==
  \A i \in DOMAIN handlers, j \in DOMAIN handlers :
    ( /\ i # j
      /\ handlers[i].c = handlers[j].c
      /\ handlers[i].chunked /\ handlers[j].chunked )
    => Bytes(handlers[i].audioBuffer) \cap Bytes(handlers[j].audioBuffer) = {}
\* the fragments a buffer holds
Chunks(audioChunks) == {audioChunks[k] : k \in DOMAIN audioChunks}

\* the unit holds every byte of the fragment
InUnit(chunk, audioBuffer) == Bytes(B64Decode(chunk)) \subseteq Bytes(audioBuffer)

\* C34: a fragment leaves audioChunks only in a step that handles a fragment
\* numbered 0 or 1 (the utterance-start reset) or when it is part of a unit
\* handed to transcription; a fragment that arrived while an earlier unit was
\* being processed is not dropped when that processing ends.  (As the claim
\* has it; the code empties the buffer after the await.)
C34_NoFragmentLost ==
  [][\A c \in DOMAIN sessions :
       \A chunk \in Chunks(sessions[c].audioChunks) \ Chunks(sessions'[c].audioChunks) :
         \/ /\ lastEvent'.kind = "audio_data" /\ lastEvent'.c = c
            /\ StartOfUtterance(lastEvent'.data)
         \/ \E i \in DOMAIN handlers :
              /\ handlers[i].c = c /\ handlers[i].chunked
              /\ InUnit(chunk, handlers[i].audioBuffer)]_vars

\* C35: in every reachable state the audioChunks buffer of a session holds
\* at most 10 fragments, for any sequence and interleaving of chunked
\* audio_data messages.  (As the claim has it.)
C35_BoundedBuffer ==
  \A c \in DOMAIN sessions :
    Has(sessions[c], "audioChunks") => Len(sessions[c].audioChunks) <= ChunkThreshold
\* C36: each accepted chat_message, and each audio unit whose transcription
\* returns a transcript while the session is not interrupted, appends exactly
\* one user Turn; every such input leads to at most one assistant Turn, one
\* bot_message and one audio_message, and no bot_message is sent for an
\* input whose user Turn was not appended.
C36_OneInputOneTurn ==
  [][/\ \A n \in DOMAIN turns' :
          turns'[n].kind \in {"chat", "audio"} =>
            /\ turns'[n].user <= 1 /\ turns'[n].asst <= 1
            /\ turns'[n].bot <= 1 /\ turns'[n].audio <= 1
            /\ turns'[n].bot > 0 => turns'[n].user = 1
            /\ turns'[n].asst > 0 => turns'[n].user = 1
            /\ turns'[n].kind = "chat" => turns'[n].user = 1
     /\ (lastEvent'.kind = "stt_return" /\ lastEvent'.transcript # Null /\ ~Flag(lastEvent'.c))
          => turns'[lastEvent'.n].user = 1]_vars

\* C36 witness: an audio turn has ended with one user Turn, one assistant
\* Turn, one bot_message and one audio_message.
C36_Witness ==
  \E n \in DOMAIN turns :
    /\ turns[n].kind = "audio" /\ turns[n].stt = "ok"
    /\ turns[n].user = 1 /\ turns[n].asst = 1
    /\ turns[n].bot = 1 /\ turns[n].audio = 1
    /\ handlers = <<>>
\* C37: the history that processUserMessage sends to the generation backend
\* holds at most 10 Turns and ends with the user Turn appended for the
\* current input, also when two handlers of the session overlap: in the step
\* that starts a generation, the request's Turns are at most 10 and the last
\* of them is the Turn that the step appended.
C37_PromptBound ==
  [][\A i \in DOMAIN handlers' :
       ( /\ handlers'[i].pc \in {"create", "gemini"}
         /\ lastEvent'.kind \in {"chat_message", "stt_return", "rest_chat"}
         /\ handlers'[i].n = (IF lastEvent'.kind = "stt_return"
                              THEN lastEvent'.n ELSE Len(turns')) )
       => LET c == handlers'[i].c
              messages == handlers'[i].messages
          IN /\ Len(messages) <= ContextCap
             /\ messages # <<>>
             /\ Last(messages).role = "user"
             /\ appended'[c] = Append(appended[c], Last(messages))]_vars

\* C37 witness: a generation was started with a history of exactly 10 Turns
\* for a session that has had more, while the generation of the message
\* before it is still in flight.
C37_Witness ==
  /\ lastEvent.kind = "chat_message"
  /\ Len(handlers) = 2
  /\ Len(handlers[2].messages) = ContextCap
  /\ Len(appended[handlers[2].c]) > ContextCap
  /\ handlers[1].c = handlers[2].c
\* C38: the conversationContext, modelId, modelType and voiceConfig of a
\* session that a WebSocket connection created change only in steps taken
\* for that connection's messages: no step of a POST /api/chat call, whatever
\* sessionId it carries, changes them.  (As the claim has it; the REST
\* handler looks the sessionId up in the map of the connections.)
C38_IsolationFromRest ==
  [][\A c \in (ConnIds \cup PeerIds) \cap DOMAIN sessions :
       ( \/ lastEvent'.kind = "rest_chat"
         \/ /\ Has(lastEvent', "n")
            /\ turns'[lastEvent'.n].kind = "rest" )
       => /\ sessions'[c].conversationContext = sessions[c].conversationContext
          /\ sessions'[c].modelId = sessions[c].modelId
          /\ sessions'[c].modelType = sessions[c].modelType
          /\ sessions'[c].voiceConfig = sessions[c].voiceConfig]_vars
\* C39: once a WebSocket session has left the registry, by its close or its
\* error event, no message is sent for it any more and it does not come back
\* into the registry, also when a generation, a transcription or a synthesis
\* was in flight when it left and returns afterwards.
C39_NoOutputForRemoved ==
  [][\A c \in (ConnIds \cup PeerIds) \cap DOMAIN sessions :
       c \notin activeConnections =>
         /\ outbox'[c] = outbox[c]
         /\ c \notin activeConnections'
         /\ \A n \in DOMAIN turns :
              /\ turns'[n].bot = turns[n].bot /\ turns'[n].audio = turns[n].audio
              /\ turns'[n].tr = turns[n].tr /\ turns'[n].err = turns[n].err]_vars

\* C39 witness: the transcription of an audio unit returned its text after
\* the session had left the registry; the turn went on to its end and
\* nothing was sent for it.
C39_Witness ==
  \E n \in DOMAIN turns :
    /\ turns[n].kind = "audio" /\ turns[n].stt = "ok" /\ turns[n].gen = "ok"
    /\ turns[n].tr = 0 /\ turns[n].bot = 0 /\ turns[n].audio = 0
    /\ turns[n].user = 1
    /\ handlers = <<>>
    /\ activeConnections = {}
\* C40: on one WebSocket session the bot_messages come in the order of the
\* chat_messages that caused them, and so do the assistant Turns: when the
\* bot_message of a chat_message is sent, or its assistant Turn pushed, none
\* has been sent or pushed yet for a chat_message received after it.  (As the
\* claim has it; turns are numbered in the order of arrival, and the client
\* of SpecRaceTurns holds the one connection.)
C40_ResponseOrder ==
  [][\A m \in DOMAIN turns, n \in DOMAIN turns :
       (m < n /\ turns[m].kind = "chat" /\ turns[n].kind = "chat") =>
         /\ turns'[m].bot > turns[m].bot => turns[n].bot = 0
         /\ turns'[m].asst > turns[m].asst => turns[n].asst = 0]_vars
====
